---- MODULE Spec2Model ----
(***************************************************************************)
(* Model of the quiz markdown parser of markdown-quiz-exporter-tool        *)
(* (src/markdown_quiz_exporter_tool/quiz_parser.py) and of its exporters   *)
(* (anki.py, flashcard_hero.py, docx.py, quiz_html.py).                    *)
(*                                                                         *)
(* Text is modelled by TLA+ strings, character by character: Len, SubSeq   *)
(* and \o are the only primitives used on them, so that str.split,         *)
(* str.strip, str.lower and the two answer regular expressions are         *)
(* computed the way Python computes them.                                  *)
(***************************************************************************)
EXTENDS Integers, Sequences, FiniteSets, TLC

VARIABLES
    fileExists,    \* whether file_path exists on disk
    content,       \* the text of the file at file_path
    parsers,       \* the QuizParser objects constructed so far (a heap, by index)
    cur,           \* index in parsers of the parser whose parse() runs / ran last
    pc,            \* position of the running parse() call
    blocks,        \* local of parse(): content.split("---")
    idx,           \* local of parse(): the loop index i (0-based)
    current_line,  \* local of parse(): current_line
    calls,         \* completed parse() calls, oldest first
    questions,     \* the list of Question objects handed to the exporters
    exportCount,   \* number of export calls made on that list
    lastExport,    \* the last of them: what it wrote and what it returned
    args,          \* the arguments of the running export command of the cli
    cliPc,         \* position of that command
    output_file,   \* the file at the command's output path
    output_before, \* that file as it was when the command was started
    stderr,        \* the errors and warnings the command has written
    quizData,      \* QUIZ_DATA of the generated page: the questions of the quiz
    state,         \* QuizApp.state
    sessionStorage, \* the item 'quizState' of the session storage: <<>> or <<a state>>
    timers,        \* the timers of the page that are set: their ids and callbacks
    nextTimerId,   \* the id the next timer of the page gets
    modal,         \* whether the time-up dialog is shown
    checkedWith    \* for each question checked in this run, its selection when it was checked

parserVars == <<fileExists, content, parsers, cur, pc, blocks, idx, current_line, calls>>
exportVars == <<questions, exportCount, lastExport>>
cliVars == <<args, cliPc, output_file, output_before, stderr>>
appVars == <<quizData, state, sessionStorage, timers, nextTimerId, modal, checkedWith>>
vars == <<parserVars, exportVars, cliVars, appVars>>

----------------------------------------------------------------------------
(* Bounds of the model *)

\* number of fragments a generated file is made of, at most
MaxFragments == 3
\* number of parse() calls made on the file
MaxCalls == 2
\* number of answers of a question handed to an exporter, at most
MaxAnswers == 6
\* number of questions of a list handed to an exporter, at most
MaxQuestions == 2
\* number of export calls made on one list
MaxExports == 2

----------------------------------------------------------------------------
(* Python str primitives *)

Ch(s, i) == SubSeq(s, i, i)

\* characters str.strip() and the regex class \s treat as whitespace
Whitespace == {" ", "\t", "\n", "\r"}

UpperLetters == "ABCDEFGHIJKLMNOPQRSTUVWXYZ"
LowerLetters == "abcdefghijklmnopqrstuvwxyz"

UpperSet == {Ch(UpperLetters, k) : k \in 1..26}
LowerSet == {Ch(LowerLetters, k) : k \in 1..26}
ToLower == [c \in UpperSet |-> Ch(LowerLetters, CHOOSE k \in 1..26 : Ch(UpperLetters, k) = c)]
ToUpper == [c \in LowerSet |-> Ch(UpperLetters, CHOOSE k \in 1..26 : Ch(LowerLetters, k) = c)]

LowerChar(c) == IF c \in UpperSet THEN ToLower[c] ELSE c
\* UpperChar that leaves every character as it is
UpperCharIdentity(c) == c
UpperChar(c) == IF c \in LowerSet THEN ToUpper[c] ELSE c

RECURSIVE StrLower(_)
\* str.lower()
StrLower(s) ==
    IF s = "" THEN "" ELSE LowerChar(Ch(s, 1)) \o StrLower(SubSeq(s, 2, Len(s)))

SetMin(S) == CHOOSE m \in S : \A n \in S : m <= n

RECURSIVE WsRun(_, _)
\* number of consecutive whitespace characters of s from position i on
WsRun(s, i) ==
    IF i <= Len(s) /\ Ch(s, i) \in Whitespace THEN 1 + WsRun(s, i + 1) ELSE 0

RECURSIVE WsRunBack(_, _)
\* number of consecutive whitespace characters of s from position i backwards
WsRunBack(s, i) ==
    IF i >= 1 /\ Ch(s, i) \in Whitespace THEN 1 + WsRunBack(s, i - 1) ELSE 0

\* str.strip(): leading and trailing whitespace removed
StrStrip(s) ==
    LET lead == WsRun(s, 1)
    IN  IF lead = Len(s) THEN "" ELSE SubSeq(s, lead + 1, Len(s) - WsRunBack(s, Len(s)))

\* the first index >= k at which sep occurs in s, 0 if none
StrFindFrom(s, sep, k) ==
    LET found == {j \in k..(Len(s) - Len(sep) + 1) : SubSeq(s, j, j + Len(sep) - 1) = sep}
    IN  IF found = {} THEN 0 ELSE SetMin(found)

\* str.find(sep), 1-based: the first index at which sep occurs, 0 if none
StrFind(s, sep) == StrFindFrom(s, sep, 1)

RECURSIVE StrSplit(_, _)
\* str.split(sep): cut at every non-overlapping occurrence of sep, left to right
StrSplit(s, sep) ==
    LET k == StrFind(s, sep)
    IN  IF k = 0 THEN <<s>>
        ELSE <<SubSeq(s, 1, k - 1)>> \o StrSplit(SubSeq(s, k + Len(sep), Len(s)), sep)

\* str.count(c) for a one-character c
StrCount(s, c) == Cardinality({k \in 1..Len(s) : Ch(s, k) = c})

RECURSIVE StrJoin(_, _)
\* sep.join(parts)
StrJoin(parts, sep) ==
    IF parts = <<>> THEN ""
    ELSE IF Len(parts) = 1 THEN parts[1]
    ELSE parts[1] \o sep \o StrJoin(Tail(parts), sep)

----------------------------------------------------------------------------
(* QuizParser class attributes *)

QUESTION_SEPARATOR == "---"
REASON_MARKER == "# reason"

NoMatch == [matched |-> FALSE, flag |-> "", text |-> ""]

\* re.compile(r"^-\s+<open>([Xx ])<close>\s*(.*)$").match(line), for a line
\* without "\n": group(1) is the flag, group(2) the text after the marker
PatternMatch(line, open, close) ==
    IF Len(line) < 2 \/ Ch(line, 1) # "-" THEN NoMatch
    ELSE LET w == WsRun(line, 2)
             p == 2 + w
         IN  IF w >= 1 /\ p + 2 <= Len(line)
                /\ Ch(line, p) = open
                /\ Ch(line, p + 1) \in {"X", "x", " "}
                /\ Ch(line, p + 2) = close
             THEN [matched |-> TRUE,
                   flag |-> Ch(line, p + 1),
                   text |-> SubSeq(line, p + 3 + WsRun(line, p + 3), Len(line))]
             ELSE NoMatch

SINGLE_CHOICE_PATTERN(line) == PatternMatch(line, "(", ")")
MULTIPLE_CHOICE_PATTERN(line) == PatternMatch(line, "[", "]")

\* _is_answer_line testing the parenthesis pattern only
IsAnswerLineSingleOnly(line) == SINGLE_CHOICE_PATTERN(line).matched

\* QuizParser._is_answer_line
IsAnswerLine(line) ==
    SINGLE_CHOICE_PATTERN(line).matched \/ MULTIPLE_CHOICE_PATTERN(line).matched

\* the test of lines 173 and 210: line.strip().lower() == REASON_MARKER.lower()
IsReasonMarker(line) == StrLower(StrStrip(line)) = StrLower(REASON_MARKER)

----------------------------------------------------------------------------
(* Data model: Answer, Question, ParseError *)

Answer(text, is_correct) == [text |-> text, is_correct |-> is_correct]

Question(text, answers, reason, question_type) ==
    [text |-> text, answers |-> answers, reason |-> reason,
     question_type |-> question_type]

ParseError(line_number, line_content, error_message, block_number, before, after) ==
    [line_number |-> line_number, line_content |-> line_content,
     error_message |-> error_message, block_number |-> block_number,
     context_before |-> before, context_after |-> after]

\* placeholders for "no question" / "parse_error is None"
NoQuestion == Question("", <<>>, "", "none")
NoParseError == ParseError(0, "", "", 0, <<>>, <<>>)

MsgNoQuestionText == "No question text found"
MsgMixed == "Mixed answer types: Cannot mix ( ) and [ ] formats in same question"
MsgNoAnswers == "No answers found. Expected format: '- (X) text' or '- [X] text'"
MsgNoCorrect == "No correct answer marked. Use (X) or [X] to mark correct answers"
MsgNoQuestions == "No questions found in the quiz file"

Min2(a, b) == IF a <= b THEN a ELSE b

\* RaiseParseError with a context of up to 3 lines on each side
RaiseParseErrorWideContext(line_offset, line_idx_in_block, line_content, error_message, block_number, block_lines) ==
    LET absolute_line == line_offset + line_idx_in_block + 1
        lo == IF line_idx_in_block >= 3 THEN line_idx_in_block - 3 ELSE 0
        context_before ==
            SubSeq(block_lines, lo + 1, Min2(line_idx_in_block, Len(block_lines)))
        context_after ==
            SubSeq(block_lines, line_idx_in_block + 2,
                   Min2(Len(block_lines), line_idx_in_block + 4))
    IN  ParseError(absolute_line, line_content, error_message, block_number,
                   context_before, context_after)

\* QuizParser._raise_parse_error: the ParseError attached to the QuizParseError.
\* line_idx_in_block is 0-based, as in the code; block_lines[k + 1] is its line k.
RaiseParseError(line_offset, line_idx_in_block, line_content, error_message, block_number, block_lines) ==
    LET absolute_line == line_offset + line_idx_in_block + 1
        lo == IF line_idx_in_block >= 2 THEN line_idx_in_block - 2 ELSE 0
        context_before ==
            SubSeq(block_lines, lo + 1, Min2(line_idx_in_block, Len(block_lines)))
        context_after ==
            SubSeq(block_lines, line_idx_in_block + 2,
                   Min2(Len(block_lines), line_idx_in_block + 3))
    IN  ParseError(absolute_line, line_content, error_message, block_number,
                   context_before, context_after)

----------------------------------------------------------------------------
(* QuizParser._parse_question_block *)

\* the inner while loop (lines 205-213): the 0-based index at which the
\* collection of continuation lines that starts at i stops
ContinuationEnd(lines, i) ==
    SetMin({j \in i..Len(lines) :
               \/ j = Len(lines)
               \/ IsAnswerLine(lines[j + 1])
               \/ IsReasonMarker(lines[j + 1])})

\* BuildAnswer without the continuation lines (single-line answers only)
BuildAnswerFirstLineOnly(lines, i, m) ==
    Answer(StrStrip(m.text), UpperChar(m.flag) = "X")

\* BuildAnswer that does not trim the joined lines
BuildAnswerUntrimmed(lines, i, m) ==
    Answer(StrJoin((IF m.text # "" THEN <<m.text>> ELSE <<>>)
                   \o SubSeq(lines, i + 2, ContinuationEnd(lines, i + 1)), "\n"),
           UpperChar(m.flag) = "X")

\* the Answer built on lines 197-217 from the match m on line i (0-based)
BuildAnswer(lines, i, m) ==
    LET is_correct == UpperChar(m.flag) = "X"
        answer_lines ==
            (IF m.text # "" THEN <<m.text>> ELSE <<>>)
            \o SubSeq(lines, i + 2, ContinuationEnd(lines, i + 1))
    IN  Answer(StrStrip(StrJoin(answer_lines, "\n")), is_correct)

\* TypeConflict with the consistency check left out
TypeConflictNever(question_type, answer_type) == FALSE

\* lines 186-188: an answer line of the shape the block does not use
TypeConflict(question_type, answer_type) ==
    question_type # "none" /\ question_type # answer_type

\* NoAnswers with the check left out
NoAnswersNever(answers) == FALSE

\* line 222: not answers
NoAnswers(answers) == answers = <<>>

\* NoneCorrect with the check left out
NoneCorrectNever(answers) == FALSE

\* line 233: not any(a.is_correct for a in answers)
NoneCorrect(answers) == \A k \in 1..Len(answers) : ~answers[k].is_correct

RECURSIVE AnswerScan(_, _, _, _)
\* the outer while loop (lines 168-220), from index i (0-based) with the answers
\* and question_type accumulated so far ("none" is Python's None).  Ends either
\* at the reason marker / the end of the block, or at a mixed answer line.
AnswerScan(lines, i, answers, question_type) ==
    IF i >= Len(lines)
    THEN [mixed |-> FALSE, at |-> i, answers |-> answers,
          question_type |-> question_type, reason_start_idx |-> Len(lines)]
    ELSE
    LET line == lines[i + 1]
        single == SINGLE_CHOICE_PATTERN(line)
        match == IF single.matched THEN single ELSE MULTIPLE_CHOICE_PATTERN(line)
        answer_type == IF single.matched THEN "single" ELSE "multiple"
    IN  IF IsReasonMarker(line)
        THEN [mixed |-> FALSE, at |-> i, answers |-> answers,
              question_type |-> question_type, reason_start_idx |-> i]
        ELSE IF match.matched
        THEN IF TypeConflict(question_type, answer_type)
             THEN [mixed |-> TRUE, at |-> i, answers |-> answers,
                   question_type |-> question_type, reason_start_idx |-> Len(lines)]
             ELSE AnswerScan(lines, ContinuationEnd(lines, i + 1),
                             Append(answers, BuildAnswer(lines, i, match)),
                             answer_type)
        ELSE AnswerScan(lines, i + 1, answers, question_type)

\* the outcome of one call: either the Question returned or the ParseError of
\* the QuizParseError raised; answers is the local list at that point
Returned(question) ==
    [ok |-> TRUE, question |-> question, error |-> NoParseError,
     answers |-> question.answers]
\* Raised for an exception that carries no ParseError, as the one of line 120
RaisedWithoutParseError(error, answers) ==
    [ok |-> FALSE, question |-> NoQuestion, error |-> NoParseError, answers |-> answers]

Raised(error, answers) ==
    [ok |-> FALSE, question |-> NoQuestion, error |-> error, answers |-> answers]

\* lines 146-153: the 0-based index of the first answer line, 0 when there is none
AnswerStartIdx(lines) ==
    LET hits == {k \in 1..Len(lines) : IsAnswerLine(lines[k])}
    IN  IF hits = {} THEN 0 ELSE SetMin(hits) - 1

\* QuestionText that takes every line of the block, answer lines included
QuestionTextWholeBlock(lines) == StrStrip(StrJoin(lines, "\n"))

\* QuestionText that leaves out the blank lines of the question text
QuestionTextNoBlankLines(lines) ==
    LET hits == {k \in 1..Len(lines) : IsAnswerLine(lines[k])}
        question_text_lines ==
            IF hits = {} THEN lines ELSE SubSeq(lines, 1, SetMin(hits) - 1)
    IN  StrStrip(StrJoin(SelectSeq(question_text_lines, LAMBDA l : StrStrip(l) # ""), "\n"))

\* lines 146-156: the lines before the first answer line (all lines when there
\* is none), joined and stripped
QuestionText(lines) ==
    LET hits == {k \in 1..Len(lines) : IsAnswerLine(lines[k])}
        question_text_lines ==
            IF hits = {} THEN lines ELSE SubSeq(lines, 1, SetMin(hits) - 1)
    IN  StrStrip(StrJoin(question_text_lines, "\n"))

\* ReasonText starting one line early, at the marker itself
ReasonTextFromMarker(lines, reason_start_idx) ==
    StrStrip(StrJoin(SubSeq(lines, reason_start_idx + 1, Len(lines)), "\n"))

\* lines 246-251
ReasonText(lines, reason_start_idx) ==
    StrStrip(StrJoin(SubSeq(lines, reason_start_idx + 2, Len(lines)), "\n"))

\* QuestionTypeOrSingle that answers "single" whatever the markers were
QuestionTypeAlwaysSingle(question_type) == "single"

\* line 257: question_type or "single"
QuestionTypeOrSingle(question_type) ==
    IF question_type = "none" THEN "single" ELSE question_type

ParseQuestionBlock(line_offset, block, block_number) ==
    LET lines == StrSplit(block, "\n")
        answer_start_idx == AnswerStartIdx(lines)
        question_text == QuestionText(lines)
        scan == AnswerScan(lines, answer_start_idx, <<>>, "none")
        answers == scan.answers
        firstAnswer == {k \in answer_start_idx..(Len(lines) - 1) : IsAnswerLine(lines[k + 1])}
    IN  IF question_text = ""
        THEN Raised(RaiseParseError(line_offset, 0, lines[1], MsgNoQuestionText,
                                    block_number, lines), <<>>)
        ELSE IF scan.mixed
        THEN Raised(RaiseParseError(line_offset, scan.at, lines[scan.at + 1], MsgMixed,
                                    block_number, lines), answers)
        ELSE IF NoAnswers(answers)
        THEN Raised(RaiseParseError(line_offset, answer_start_idx,
                                    lines[answer_start_idx + 1], MsgNoAnswers,
                                    block_number, lines), answers)
        ELSE IF NoneCorrect(answers) /\ firstAnswer # {}
        THEN Raised(RaiseParseError(line_offset, SetMin(firstAnswer),
                                    lines[SetMin(firstAnswer) + 1], MsgNoCorrect,
                                    block_number, lines), answers)
        ELSE Returned(Question(question_text, answers,
                               ReasonText(lines, scan.reason_start_idx),
                               QuestionTypeOrSingle(scan.question_type)))

----------------------------------------------------------------------------
(* The input files *)

\* The fragments generated files are made of, joined by "\n": a well-formed
\* question, a line of text, a blank line, answer lines of both shapes with
\* and without the flag (one with nothing after its marker), a reason marker
\* in another case and with trailing whitespace, the separator line alone and
\* between blank lines, and a line that holds the separator token inside a
\* longer text.
Fragments ==
    {"Q\n- (X) a", "Q", "", "- ( ) b", "- [x] c", "- [ ] d", "- (X)",
     "# Reason ", "---", "\n---\n", "t---u"}

SeqsUpTo(S, n) == UNION {[1..k -> S] : k \in 0..n}

Files == {StrJoin(fragments, "\n") : fragments \in SeqsUpTo(Fragments, MaxFragments)}

----------------------------------------------------------------------------
(* QuizParser and parse_quiz_file *)

\* QuizParser.__init__ (lines 74-77)
NewParser == [questions |-> <<>>, all_lines |-> <<>>, line_offset |-> 0]

\* What a completed call of parse() left behind: the parser it ran on, how it
\* ended, the list it returned (as it was at the return), the message and the
\* parse_error of the exception it raised, and the answers the raising
\* _parse_question_block had built by then
CallRecord(parser, outcome, result, text, parse_error, answers) ==
    [parser |-> parser, outcome |-> outcome, result |-> result,
     message |-> text, parse_error |-> parse_error, answers |-> answers]

\* str(QuizParseError): f"Error at line {absolute_line}: {error_message}" of
\* line 316 (at_line > 0), or a message without that prefix (at_line = 0)
LineMessage(absolute_line, error_message) == [at_line |-> absolute_line, text |-> error_message]
PlainMessage(text) == [at_line |-> 0, text |-> text]

\* what an export call left behind: which exporter ran, the list as it was
\* when the call was made, the content of the file the call wrote at
\* output_path and the value it returned
ExportRecord(exporter, given, output, returned) ==
    [exporter |-> exporter, given |-> given, output |-> output, returned |-> returned]

NoExport == ExportRecord("none", <<>>, "", 0)

\* the arguments of an export command of the cli: flashhero, anki (with
\* format_type "quiz" or "recall") or quiz_html (with its title), and --force
Args(command, format_type, title, force) ==
    [command |-> command, format_type |-> format_type, title |-> title, force |-> force]
NoArgs == Args("none", "", "", FALSE)

\* a path of the file system: whether a file exists there and the texts it
\* holds (one text; for a quiz page its title and its quiz data, the fixed
\* text of the page left out)
File(texts) == [exists |-> TRUE, texts |-> texts]
AbsentFile == [exists |-> FALSE, texts |-> <<>>]

\* a JavaScript object without keys
EmptyObject == [k \in {} |-> TRUE]

\* no quiz page is open
NoPage ==
    /\ quizData = <<>>
    /\ state = EmptyObject
    /\ sessionStorage = <<>>
    /\ timers = {}
    /\ nextTimerId = 1
    /\ modal = FALSE
    /\ checkedWith = EmptyObject

\* no export command is running
NoCommand ==
    /\ args = NoArgs
    /\ cliPc = "none"
    /\ output_file = AbsentFile
    /\ output_before = AbsentFile
    /\ stderr = <<>>

TypeOK ==
    /\ fileExists \in BOOLEAN
    /\ pc \in {"idle", "loop", "returned", "raised"}
    /\ cur \in 0..Len(parsers)
    /\ idx \in 0..Len(blocks)
    /\ Len(calls) <= MaxCalls

Init ==
    /\ fileExists \in BOOLEAN
    /\ content \in (IF fileExists THEN Files ELSE {""})
    /\ parsers = <<>>
    /\ cur = 0
    /\ pc = "idle"
    /\ blocks = <<>>
    /\ idx = 0
    /\ current_line = 0
    /\ calls = <<>>
    /\ questions = <<>>
    /\ exportCount = 0
    /\ lastExport = NoExport
    /\ NoCommand
    /\ NoPage

\* QuizParser.parse, lines 89-98, on parser p of the heap ps: the existence
\* check, the read of the file and the split into blocks
ParseBegin(ps, p) ==
    IF ~fileExists
    THEN /\ parsers' = ps
         /\ pc' = "raised"
         /\ calls' = Append(calls, CallRecord(p, "not_found", <<>>, PlainMessage("Quiz file not found"), NoParseError, <<>>))
         /\ UNCHANGED <<blocks, idx, current_line>>
    ELSE /\ parsers' = [ps EXCEPT ![p].all_lines = StrSplit(content, "\n")]
         /\ blocks' = StrSplit(content, QUESTION_SEPARATOR)
         /\ idx' = 0
         /\ current_line' = 0
         /\ pc' = "loop"
         /\ UNCHANGED calls

\* parse_quiz_file(file_path): a new QuizParser, then its parse()
ParseQuizFile ==
    /\ pc # "loop"
    /\ Len(calls) < MaxCalls
    /\ cur' = Len(parsers) + 1
    /\ ParseBegin(Append(parsers, NewParser), Len(parsers) + 1)
    /\ UNCHANGED <<fileExists, content, exportVars, cliVars, appVars>>

\* parser.parse() called once more on the QuizParser used by the last call
ParseAgain ==
    /\ pc # "loop"
    /\ cur # 0
    /\ Len(calls) < MaxCalls
    /\ ParseBegin(parsers, cur)
    /\ UNCHANGED <<fileExists, content, cur, exportVars, cliVars, appVars>>

\* lines 104-106: the lines the block at 0-based index i accounts for
BlockLineCount(bs, i) ==
    StrCount(bs[i + 1], "\n") + 1 + (IF i < Len(bs) - 1 THEN 1 ELSE 0)

\* ParseBlock that skips a malformed block and goes on with the next one
ParseBlockSkipMalformed ==
    /\ pc = "loop"
    /\ idx < Len(blocks)
    /\ LET block == StrStrip(blocks[idx + 1])
           out == ParseQuestionBlock(current_line, block, idx + 1)
       IN  parsers' = [parsers EXCEPT
                         ![cur].line_offset = current_line,
                         ![cur].questions =
                             IF block # "" /\ out.ok THEN Append(@, out.question) ELSE @]
    /\ current_line' = current_line + BlockLineCount(blocks, idx)
    /\ idx' = idx + 1
    /\ UNCHANGED <<fileExists, content, cur, blocks, pc, calls, exportVars, cliVars, appVars>>

\* ParseBlock without the skip of lines 109-111: an empty block is parsed too
ParseBlockNoSkip ==
    /\ pc = "loop"
    /\ idx < Len(blocks)
    /\ LET block == StrStrip(blocks[idx + 1])
           out == ParseQuestionBlock(current_line, block, idx + 1)
       IN  IF out.ok
           THEN /\ parsers' = [parsers EXCEPT
                                 ![cur].line_offset = current_line,
                                 ![cur].questions = Append(@, out.question)]
                /\ current_line' = current_line + BlockLineCount(blocks, idx)
                /\ idx' = idx + 1
                /\ UNCHANGED <<pc, calls>>
           ELSE /\ parsers' = [parsers EXCEPT ![cur].line_offset = current_line]
                /\ pc' = "raised"
                /\ calls' = Append(calls,
                       CallRecord(cur, "parse_error", <<>>,
                                  LineMessage(out.error.line_number, out.error.error_message),
                                  out.error, out.answers))
                /\ UNCHANGED <<idx, current_line>>
    /\ UNCHANGED <<fileExists, content, cur, blocks, exportVars, cliVars, appVars>>

\* one iteration of the loop of parse (lines 99-122)
ParseBlock ==
    /\ pc = "loop"
    /\ idx < Len(blocks)
    /\ LET block == StrStrip(blocks[idx + 1])
           out == ParseQuestionBlock(current_line, block, idx + 1)
       IN  IF block = ""
           THEN /\ parsers' = [parsers EXCEPT ![cur].line_offset = current_line]
                /\ current_line' = current_line + BlockLineCount(blocks, idx)
                /\ idx' = idx + 1
                /\ UNCHANGED <<pc, calls>>
           ELSE IF out.ok
           THEN /\ parsers' = [parsers EXCEPT
                                 ![cur].line_offset = current_line,
                                 ![cur].questions = Append(@, out.question)]
                /\ current_line' = current_line + BlockLineCount(blocks, idx)
                /\ idx' = idx + 1
                /\ UNCHANGED <<pc, calls>>
           ELSE /\ parsers' = [parsers EXCEPT ![cur].line_offset = current_line]
                /\ pc' = "raised"
                /\ calls' = Append(calls,
                       CallRecord(cur, "parse_error", <<>>,
                                  LineMessage(out.error.line_number, out.error.error_message),
                                  out.error, out.answers))
                /\ UNCHANGED <<idx, current_line>>
    /\ UNCHANGED <<fileExists, content, cur, blocks, exportVars, cliVars, appVars>>

\* ParseFinish without the test of line 124: an empty list is returned
ParseFinishNoEmptyCheck ==
    /\ pc = "loop"
    /\ idx = Len(blocks)
    /\ pc' = "returned"
    /\ calls' = Append(calls,
           CallRecord(cur, "returned", parsers[cur].questions, PlainMessage(""),
                      NoParseError, <<>>))
    /\ UNCHANGED <<fileExists, content, parsers, cur, blocks, idx, current_line, exportVars, cliVars, appVars>>

\* lines 124-127: the end of parse
ParseFinish ==
    /\ pc = "loop"
    /\ idx = Len(blocks)
    /\ IF parsers[cur].questions = <<>>
       THEN /\ pc' = "raised"
            /\ calls' = Append(calls,
                   CallRecord(cur, "no_questions", <<>>, PlainMessage(MsgNoQuestions),
                              NoParseError, <<>>))
       ELSE /\ pc' = "returned"
            /\ calls' = Append(calls,
                   CallRecord(cur, "returned", parsers[cur].questions, PlainMessage(""),
                              NoParseError, <<>>))
    /\ UNCHANGED <<fileExists, content, parsers, cur, blocks, idx, current_line, exportVars, cliVars, appVars>>

Next ==
    \/ ParseQuizFile
    \/ ParseAgain
    \/ ParseBlock
    \/ ParseFinish

Spec == Init /\ [][Next]_vars

----------------------------------------------------------------------------
(* anki.py: the text primitives of the exporters *)

RECURSIVE NonWsRun(_, _)
\* number of consecutive non-whitespace characters of s from position i on
NonWsRun(s, i) ==
    IF i <= Len(s) /\ Ch(s, i) \notin Whitespace THEN 1 + NonWsRun(s, i + 1) ELSE 0

RECURSIVE WordsFrom(_, _)
\* the words of s from position i on
WordsFrom(s, i) ==
    LET start == i + WsRun(s, i)
        n == NonWsRun(s, start)
    IN  IF start > Len(s) THEN <<>>
        ELSE <<SubSeq(s, start, start + n - 1)>> \o WordsFrom(s, start + n)

\* str.split() without argument: the words between runs of whitespace
StrWords(s) == WordsFrom(s, 1)

\* NormalizeText that only trims the text
NormalizeTextStripOnly(text) == StrStrip(text)

\* AnkiAllInOneExporter._normalize_text / AnkiBasicExporter._normalize_text:
\* " ".join(text.split()).strip()
NormalizeText(text) == StrStrip(StrJoin(StrWords(text), " "))

\* str.replace(old, new)
StrReplace(s, old, new) == StrJoin(StrSplit(s, old), new)

\* csv.writer(delimiter=";", quotechar='"', quoting=csv.QUOTE_MINIMAL): a
\* field is quoted when it holds the delimiter, the quote character or a
\* character of the line terminator; a quote character inside is doubled
CsvField(field) ==
    IF \E k \in 1..Len(field) : Ch(field, k) \in {";", "\"", "\r", "\n"}
    THEN "\"" \o StrReplace(field, "\"", "\"\"") \o "\""
    ELSE field

\* csv.writer.writerow(row), for a row of two fields or more
CsvRow(row) == StrJoin([k \in 1..Len(row) |-> CsvField(row[k])], ";") \o "\r\n"

\* "".join(parts)
Concat(parts) == StrJoin(parts, "")

----------------------------------------------------------------------------
(* anki.py: AnkiAllInOneExporter *)

ALLINONE_HEADERS ==
    <<"#separator:Semicolon", "#html:false", "#notetype:AllInOne (kprim, mc, sc)",
      "#tags:quiz generated">>

\* GetQtype that looks at question_type only
GetQtypeByTypeOnly(question) == IF question.question_type = "single" THEN "2" ELSE "1"

\* AnkiAllInOneExporter._get_qtype
GetQtype(question) ==
    LET correct_count ==
            Cardinality({k \in 1..Len(question.answers) : question.answers[k].is_correct})
    IN  IF question.question_type = "single" \/ correct_count = 1 THEN "2" ELSE "1"

\* FormatAnswerOptions that leaves the texts as they are
FormatAnswerOptionsRaw(question) ==
    [k \in 1..5 |-> IF k <= Len(question.answers) THEN question.answers[k].text ELSE ""]

\* AnkiAllInOneExporter._format_answer_options: the normalized texts of the
\* first five answers, padded with "" to five
FormatAnswerOptions(question) ==
    LET options == [k \in 1..Len(question.answers) |-> NormalizeText(question.answers[k].text)]
    IN  [k \in 1..5 |-> IF k <= Len(options) THEN options[k] ELSE ""]

\* AnkiAllInOneExporter._format_answers_binary
FormatAnswersBinary(question) ==
    LET binary == [i \in 1..5 |->
                      IF i <= Len(question.answers) /\ question.answers[i].is_correct
                      THEN "1" ELSE "0"]
    IN  StrJoin(binary, " ")

\* AnkiAllInOneExporter._format_question_row
\* Field order: Question;Title;QType;Q_1;Q_2;Q_3;Q_4;Q_5;Answers;Sources;Extra1;Tags
AllInOneRow(question) ==
    <<NormalizeText(question.text), "", GetQtype(question)>>
    \o FormatAnswerOptions(question)
    \o <<FormatAnswersBinary(question), "", NormalizeText(question.reason), "quiz">>

\* the file AnkiAllInOneExporter.export writes: the header lines, each ended
\* by "\n", then one csv row per question
AllInOneFile(qs) ==
    Concat([k \in 1..4 |-> ALLINONE_HEADERS[k] \o "\n"])
    \o Concat([k \in 1..Len(qs) |-> CsvRow(AllInOneRow(qs[k]))])

----------------------------------------------------------------------------
(* anki.py: AnkiBasicExporter *)

BASIC_HEADERS ==
    <<"#separator:Semicolon", "#html:false", "#notetype:Basic", "#tags:quiz recall">>

\* AnkiBasicExporter._format_back
FormatBack(question) ==
    LET correct_answers ==
            SelectSeq(question.answers, LAMBDA ans : ans.is_correct)
        texts == [k \in 1..Len(correct_answers) |-> correct_answers[k].text]
        answer_text ==
            IF Len(texts) = 1 THEN "Answer: " \o texts[1]
            ELSE "Answers: " \o StrJoin(texts, ", ")
    IN  IF StrStrip(question.reason) # ""
        THEN answer_text \o "<br><br>Explanation: " \o NormalizeText(question.reason)
        ELSE answer_text

\* AnkiBasicExporter._format_question_row
BasicRow(question) == <<NormalizeText(question.text), FormatBack(question), "recall">>

\* the file AnkiBasicExporter.export writes
BasicFile(qs) ==
    Concat([k \in 1..4 |-> BASIC_HEADERS[k] \o "\n"])
    \o Concat([k \in 1..Len(qs) |-> CsvRow(BasicRow(qs[k]))])

----------------------------------------------------------------------------
(* flashcard_hero.py: FlashcardHeroExporter *)

\* s has t at position i
HasAt(s, i, t) == i >= 1 /\ i + Len(t) - 1 <= Len(s) /\ SubSeq(s, i, i + Len(t) - 1) = t

\* no character of s from position a to position b is a line break (the
\* regex "." matches every character but "\n")
NoBreak(s, a, b) == \A k \in a..b : Ch(s, k) # "\n"

\* where the match of  open(.+?)close  that starts at i has its close, 0 if
\* there is no match at i
CloseOf(s, i, open, close) ==
    LET from == i + Len(open) + 1
        ends == {j \in from..Len(s) : HasAt(s, j, close) /\ NoBreak(s, i + Len(open), j - 1)}
    IN  IF HasAt(s, i, open) /\ ends # {} THEN SetMin(ends) ELSE 0

RECURSIVE Unwrap(_, _, _, _)
\* re.sub(open(.+?)close, r"\1", s) from position i on: every match, leftmost
\* first, is replaced by what stands between its delimiters
Unwrap(s, i, open, close) ==
    IF i > Len(s) THEN ""
    ELSE LET j == CloseOf(s, i, open, close)
         IN  IF j # 0
             THEN SubSeq(s, i + Len(open), j - 1) \o Unwrap(s, j + Len(close), open, close)
             ELSE Ch(s, i) \o Unwrap(s, i + 1, open, close)

\* the match of  \[(.+?)\]\(.+?\)  that starts at i: where its "](" and its
\* ")" stand, <<0, 0>> if there is no match at i
LinkAt(s, i) ==
    LET mids == {j \in (i + 2)..Len(s) :
                    /\ HasAt(s, j, "](")
                    /\ NoBreak(s, i + 1, j - 1)
                    /\ \E k \in (j + 3)..Len(s) : Ch(s, k) = ")" /\ NoBreak(s, j + 2, k - 1)}
        j == SetMin(mids)
        k == SetMin({k \in (j + 3)..Len(s) : Ch(s, k) = ")" /\ NoBreak(s, j + 2, k - 1)})
    IN  IF HasAt(s, i, "[") /\ mids # {} THEN <<j, k>> ELSE <<0, 0>>

RECURSIVE UnwrapLinks(_, _)
\* re.sub(r"\[(.+?)\]\(.+?\)", r"\1", s) from position i on
UnwrapLinks(s, i) ==
    IF i > Len(s) THEN ""
    ELSE LET m == LinkAt(s, i)
         IN  IF m[1] # 0
             THEN SubSeq(s, i + 1, m[1] - 1) \o UnwrapLinks(s, m[2] + 1)
             ELSE Ch(s, i) \o UnwrapLinks(s, i + 1)

\* the backtick of markdown code spans; a string of this module cannot hold
\* that character, so the texts of the model write it as "~"
BACKTICK == "~"

\* FlashcardHeroExporter._strip_markdown: bold, italic, code, links
StripMarkdown(text) ==
    UnwrapLinks(Unwrap(Unwrap(Unwrap(text, 1, "**", "**"), 1, "*", "*"),
                       1, BACKTICK, BACKTICK), 1)

\* FormatFlashText that replaces the tabs and leaves other whitespace alone
FormatFlashTextTabsOnly(text) == StrReplace(StripMarkdown(text), "\t", " ")

\* FlashcardHeroExporter._format_question and _format_answer_text
FormatFlashText(text) ==
    StrReplace(StrJoin(StrWords(StripMarkdown(text)), " "), "\t", " ")

\* FlashcardHeroExporter._format_answer
FormatFlashAnswer(question) ==
    LET correct_answers == SelectSeq(question.answers, LAMBDA ans : ans.is_correct)
        answer_texts ==
            [k \in 1..Len(correct_answers) |-> FormatFlashText(correct_answers[k].text)]
    IN  IF correct_answers = <<>> THEN "No correct answer found"
        ELSE IF Len(answer_texts) = 1 THEN answer_texts[1]
        ELSE StrJoin(answer_texts, "; ")

\* the lines FlashcardHeroExporter.export builds: front, a tab, back
FlashLines(qs) ==
    [k \in 1..Len(qs) |-> FormatFlashText(qs[k].text) \o "\t" \o FormatFlashAnswer(qs[k])]

\* the file FlashcardHeroExporter.export writes
FlashFile(qs) == StrJoin(FlashLines(qs), "\n") \o "\n"

----------------------------------------------------------------------------
(* docx.py: DocxExporter.  The document is the sequence of its paragraphs,  *)
(* a paragraph the sequence of its runs with the formatting the code sets.  *)

\* the two checkbox characters, written by their code points
CHECKBOX_CHECKED == "U+2611"
CHECKBOX_UNCHECKED == "U+2610"

FONT_NAME == "Times New Roman"
CODE_FONT_NAME == "Courier New"
FONT_SIZE == 12
CODE_FONT_SIZE == 10

Run(text, bold, italic, font, size, highlight) ==
    [text |-> text, bold |-> bold, italic |-> italic, font |-> font, size |-> size,
     highlight |-> highlight]

PlainRun(text, base_italic) == Run(text, FALSE, base_italic, FONT_NAME, FONT_SIZE, FALSE)

Paragraph(style, runs, left_indent, space_before, space_after, shading, border) ==
    [style |-> style, runs |-> runs, left_indent |-> left_indent,
     space_before |-> space_before, space_after |-> space_after,
     shading |-> shading, border |-> border]

\* the match of  `([^`]+)`  that starts at i: where its closing backtick
\* stands, 0 if there is no match at i
CodeClose(s, i) ==
    LET ticks == {j \in (i + 1)..Len(s) : Ch(s, j) = BACKTICK}
    IN  IF HasAt(s, i, BACKTICK) /\ ticks # {} /\ SetMin(ticks) >= i + 2
        THEN SetMin(ticks) ELSE 0

RECURSIVE InlineFrom(_, _, _, _)
\* DocxExporter._add_inline_formatted_text: the runs added for text from
\* position i on, the text from last_end on not yet being in a run
InlineFrom(text, i, last_end, base_italic) ==
    IF i > Len(text)
    THEN IF last_end <= Len(text)
         THEN <<PlainRun(SubSeq(text, last_end, Len(text)), base_italic)>>
         ELSE <<>>
    ELSE
    LET bold == CloseOf(text, i, "**", "**")
        italic == CloseOf(text, i, "*", "*")
        code == CodeClose(text, i)
        before == IF i > last_end
                  THEN <<PlainRun(SubSeq(text, last_end, i - 1), base_italic)>>
                  ELSE <<>>
    IN  IF bold # 0
        THEN before
             \o <<Run(SubSeq(text, i + 2, bold - 1), TRUE, base_italic, FONT_NAME, FONT_SIZE, FALSE)>>
             \o InlineFrom(text, bold + 2, bold + 2, base_italic)
        ELSE IF italic # 0
        THEN before
             \o <<Run(SubSeq(text, i + 1, italic - 1), FALSE, TRUE, FONT_NAME, FONT_SIZE, FALSE)>>
             \o InlineFrom(text, italic + 1, italic + 1, base_italic)
        ELSE IF code # 0
        THEN before
             \o <<Run(SubSeq(text, i + 1, code - 1), FALSE, FALSE, CODE_FONT_NAME, FONT_SIZE, TRUE)>>
             \o InlineFrom(text, code + 1, code + 1, base_italic)
        ELSE InlineFrom(text, i + 1, last_end, base_italic)

InlineRuns(text, base_italic) == InlineFrom(text, 1, 1, base_italic)

\* the fence of a markdown code block
FENCE == BACKTICK \o BACKTICK \o BACKTICK

Digits == "0123456789"
\* the characters the regex class \w matches
WordChars ==
    {Ch(UpperLetters, k) : k \in 1..26} \cup {Ch(LowerLetters, k) : k \in 1..26}
        \cup {Ch(Digits, k) : k \in 1..10} \cup {"_"}

RECURSIVE WordRun(_, _)
WordRun(s, i) == IF i <= Len(s) /\ Ch(s, i) \in WordChars THEN 1 + WordRun(s, i + 1) ELSE 0

\* the match of  ```(\w*)\n?(.*?)```  (re.DOTALL) that starts at i: where its
\* closing fence stands, 0 if there is no match at i
FenceClose(s, i) ==
    LET closes == {j \in (i + 3)..Len(s) : HasAt(s, j, FENCE)}
    IN  IF HasAt(s, i, FENCE) /\ closes # {} THEN SetMin(closes) ELSE 0

\* group 2 of that match: what follows the language word and one line break
FenceCode(s, i) ==
    LET p == i + 3 + WordRun(s, i + 3)
        q == IF HasAt(s, p, "\n") THEN p + 1 ELSE p
    IN  SubSeq(s, q, FenceClose(s, i) - 1)

\* DocxExporter._add_code_block: the paragraphs added for a code block
CodeBlock(code) ==
    LET lines == StrSplit(StrStrip(code), "\n")
        runs(line) ==
            (IF line # "" THEN <<Run(line, FALSE, FALSE, CODE_FONT_NAME, CODE_FONT_SIZE, FALSE)>>
             ELSE <<>>)
            \o <<Run("\n", FALSE, FALSE, "", 0, FALSE)>>
        RECURSIVE all(_)
        all(k) == IF k > Len(lines) THEN <<>> ELSE runs(lines[k]) \o all(k + 1)
    IN  IF StrStrip(code) = "" THEN <<>>
        ELSE <<Paragraph("Code", all(1), 0, 0, 0, "E8E8E8", FALSE)>>

RECURSIVE FormattedFrom(_, _, _, _)
\* DocxExporter._add_formatted_text for a text with code blocks, from position
\* i on, the regular text from start on not yet being dealt with: the runs
\* added to the paragraph and the paragraphs added to the document
FormattedFrom(text, i, start, base_italic) ==
    LET regular(a, b) ==
            IF StrStrip(SubSeq(text, a, b)) # ""
            THEN InlineRuns(SubSeq(text, a, b), base_italic) ELSE <<>>
    IN  IF i > Len(text)
        THEN [runs |-> regular(start, Len(text)), paragraphs |-> <<>>]
        ELSE IF FenceClose(text, i) # 0
        THEN LET j == FenceClose(text, i)
                 rest == FormattedFrom(text, j + 3, j + 3, base_italic)
             IN  [runs |-> regular(start, i - 1) \o rest.runs,
                  paragraphs |-> CodeBlock(FenceCode(text, i)) \o rest.paragraphs]
        ELSE FormattedFrom(text, i + 1, start, base_italic)

\* DocxExporter._add_formatted_text
Formatted(text, base_italic) ==
    IF \E i \in 1..Len(text) : FenceClose(text, i) # 0
    THEN FormattedFrom(text, 1, 1, base_italic)
    ELSE [runs |-> InlineRuns(text, base_italic), paragraphs |-> <<>>]

RECURSIVE IntToStr(_)
\* str(n) for a natural number
IntToStr(n) ==
    IF n < 10 THEN Ch(Digits, n + 1)
    ELSE IntToStr(n \div 10) \o Ch(Digits, (n % 10) + 1)

\* DocxExporter._add_answer
AnswerParagraphs(answer) ==
    LET checkbox == IF answer.is_correct THEN CHECKBOX_CHECKED ELSE CHECKBOX_UNCHECKED
        f == Formatted(answer.text, FALSE)
    IN  <<Paragraph("Normal", <<PlainRun("    " \o checkbox \o " ", FALSE)>> \o f.runs,
                    20, 0, 0, "", FALSE)>>
        \o f.paragraphs

\* DocxExporter._add_reason
ReasonParagraphs(reason) ==
    LET f == Formatted(reason, TRUE)
    IN  <<Paragraph("Normal",
                    <<Run("Reason: ", TRUE, TRUE, FONT_NAME, FONT_SIZE, FALSE)>> \o f.runs,
                    0, 12, 0, "", FALSE)>>
        \o f.paragraphs

RECURSIVE AnswersParagraphs(_)
AnswersParagraphs(answers) ==
    IF answers = <<>> THEN <<>>
    ELSE AnswerParagraphs(Head(answers)) \o AnswersParagraphs(Tail(answers))

EmptyParagraph == Paragraph("Normal", <<>>, 0, 0, 0, "", FALSE)

\* DocxExporter._add_question
QuestionParagraphs(question, number) ==
    LET f == Formatted(question.text, FALSE)
    IN  <<Paragraph("Normal",
                    <<Run(IntToStr(number) \o ". ", TRUE, FALSE, FONT_NAME, FONT_SIZE, FALSE)>>
                        \o f.runs,
                    0, 0, 0, "", FALSE)>>
        \o f.paragraphs
        \o AnswersParagraphs(question.answers)
        \o (IF StrStrip(question.reason) # "" THEN ReasonParagraphs(question.reason) ELSE <<>>)
        \o <<EmptyParagraph>>

\* DocxExporter._add_horizontal_line
HorizontalLine == Paragraph("Normal", <<>>, 0, 12, 12, "", TRUE)

RECURSIVE DocxFrom(_, _)
\* the loop of DocxExporter.export from question i on
DocxFrom(qs, i) ==
    IF i > Len(qs) THEN <<>>
    ELSE QuestionParagraphs(qs[i], i)
         \o (IF i < Len(qs) THEN <<HorizontalLine>> ELSE <<>>)
         \o DocxFrom(qs, i + 1)

\* the document DocxExporter.export saves
DocxFile(qs) == DocxFrom(qs, 1)

----------------------------------------------------------------------------
(* quiz_html.py: QuizHTMLGenerator (the page it writes; texts are ASCII) *)

\* html.escape(s)
HtmlEscape(s) ==
    StrReplace(StrReplace(StrReplace(StrReplace(StrReplace(s,
        "&", "&amp;"), "<", "&lt;"), ">", "&gt;"), "\"", "&quot;"), "'", "&#x27;")

\* how json.dumps writes one character of a string
JsonChar(c) ==
    IF c = "\"" THEN "\\\""
    ELSE IF c = "\\" THEN "\\\\"
    ELSE IF c = "\n" THEN "\\n"
    ELSE IF c = "\r" THEN "\\r"
    ELSE IF c = "\t" THEN "\\t"
    ELSE c

\* json.dumps(s, ensure_ascii=False) for a string s
JsonString(s) == "\"" \o Concat([k \in 1..Len(s) |-> JsonChar(Ch(s, k))]) \o "\""

\* str.isupper(): some cased character, and no lowercase one
IsUpper(s) ==
    /\ \E k \in 1..Len(s) : Ch(s, k) \in UpperSet
    /\ \A k \in 1..Len(s) : Ch(s, k) \notin LowerSet

\* QuizHTMLGenerator._extract_category
ExtractCategory(text) ==
    LET at == StrFind(text, ":")
        potential_category == StrStrip(SubSeq(text, 1, at - 1))
    IN  IF at # 0 /\ IsUpper(potential_category) /\ Len(potential_category) < 30
        THEN potential_category ELSE ""

\* QuizHTMLGenerator._clean_question_text
CleanQuestionText(text) ==
    IF ExtractCategory(text) # ""
    THEN StrStrip(SubSeq(text, StrFind(text, ":") + 1, Len(text)))
    ELSE text

\* json.dumps of the dictionary of one answer, separators=(",", ":")
JsonAnswer(ans) ==
    "{\"text\":" \o JsonString(ans.text) \o ",\"correct\":"
        \o (IF ans.is_correct THEN "true" ELSE "false") \o "}"

\* json.dumps of QuizHTMLGenerator._question_to_dict(question)
JsonQuestion(question) ==
    "{\"category\":" \o JsonString(ExtractCategory(question.text))
        \o ",\"text\":" \o JsonString(CleanQuestionText(question.text))
        \o ",\"type\":" \o JsonString(question.question_type)
        \o ",\"answers\":["
        \o StrJoin([k \in 1..Len(question.answers) |-> JsonAnswer(question.answers[k])], ",")
        \o "],\"reason\":" \o JsonString(question.reason) \o "}"

\* QuizHTMLGenerator._build_quiz_data
BuildQuizData(qs, title) ==
    "{\"title\":" \o JsonString(title) \o ",\"questions\":["
        \o StrJoin([k \in 1..Len(qs) |-> JsonQuestion(qs[k])], ",") \o "]}"

\* the size in bytes of the page without its title and its quiz data: the
\* fixed text of _build_html, _build_head, _build_styles, _build_body and
\* _build_javascript
HTML_TEMPLATE_BYTES == 45204

\* the page QuizHTMLGenerator.generate writes: the fixed text with the
\* escaped title in <title> and the quiz data as the value of QUIZ_DATA
HtmlFile(qs, title) == [title |-> HtmlEscape(title), quiz_data |-> BuildQuizData(qs, title)]

\* what generate returns: len(html_content.encode("utf-8"))
HtmlSize(qs, title) ==
    HTML_TEMPLATE_BYTES + Len(HtmlEscape(title)) + Len(BuildQuizData(qs, title))

----------------------------------------------------------------------------
(* The question lists handed to the exporters, and the export calls *)

\* The texts questions, answers and reasons are made of: a word; a text with
\* blanks, a line break and a tab at its ends and inside; one with the csv
\* delimiter and quote character; one with bold, italic, code and link
\* markdown; one with a category prefix; one with a fenced code block.
ExportTexts ==
    <<"a", " b\n\tc ", "x;y \"z\"", "**b** *i* ~c~ [l](u)", "AWS: t", "~~~py\nz~~~ w">>

\* the k-th text, counting round
TextAt(k) == ExportTexts[((k - 1) % Len(ExportTexts)) + 1]

\* which of n answers are correct: none, the first, the last, every second, all
CorrectPatterns == {"none", "first", "last", "even", "all"}
CorrectIn(pattern, n, k) ==
    CASE pattern = "none" -> FALSE
      [] pattern = "first" -> k = 1
      [] pattern = "last" -> k = n
      [] pattern = "even" -> k % 2 = 0
      [] pattern = "all" -> TRUE

\* a Question with text number t, n answers, the given correct answers, a
\* reason or none, and the given question_type
SampleQuestion(t, n, pattern, with_reason, question_type) ==
    Question(TextAt(t),
             [k \in 1..n |-> Answer(TextAt(t + k), CorrectIn(pattern, n, k))],
             IF with_reason THEN TextAt(t + 1) ELSE "",
             question_type)

\* the lists of up to MaxQuestions questions: the k-th question of a list
\* moves on by one text and one answer from the one before it, and every
\* second question has a reason
QuestionLists ==
    {<<>>} \cup
    {[k \in 1..len |->
         SampleQuestion(t + k - 1, (n + k - 1) % (MaxAnswers + 1), pattern,
                        (n + k) % 2 = 0, question_type)] :
        len \in 1..MaxQuestions, t \in 1..Len(ExportTexts), n \in 0..MaxAnswers,
        pattern \in CorrectPatterns, question_type \in {"single", "multiple"}}

\* the titles given to the quiz page
Titles == {"", "T<&>"}

\* the state before any export: a caller holds a list of questions
ExportInit ==
    /\ fileExists = FALSE
    /\ content = ""
    /\ parsers = <<>>
    /\ cur = 0
    /\ pc = "idle"
    /\ blocks = <<>>
    /\ idx = 0
    /\ current_line = 0
    /\ calls = <<>>
    /\ questions \in QuestionLists
    /\ exportCount = 0
    /\ lastExport = NoExport
    /\ NoCommand
    /\ NoPage

\* Exported for an exporter that normalizes the texts of the questions where
\* they are, in the caller's list
ExportedNormalizingInPlace(exporter, output, returned) ==
    /\ exportCount < MaxExports
    /\ exportCount' = exportCount + 1
    /\ lastExport' = ExportRecord(exporter, questions, output, returned)
    /\ questions' = [k \in 1..Len(questions) |->
                        [questions[k] EXCEPT !.text = NormalizeText(@)]]
    /\ UNCHANGED <<parserVars, cliVars, appVars>>

\* an export call: the exporter is constructed on the caller's list
\* (self.questions = questions), writes its file and returns
Exported(exporter, output, returned) ==
    /\ exportCount < MaxExports
    /\ exportCount' = exportCount + 1
    /\ lastExport' = ExportRecord(exporter, questions, output, returned)
    /\ UNCHANGED <<questions, parserVars, cliVars, appVars>>

\* anki.export_to_anki_allinone(questions, output_path)
ExportToAnkiAllInOne ==
    Exported("anki_allinone", AllInOneFile(questions), Len(questions))

\* anki.export_to_anki_basic(questions, output_path)
ExportToAnkiBasic ==
    Exported("anki_basic", BasicFile(questions), Len(questions))

\* flashcard_hero.export_to_flashcard_hero(questions, output_path)
ExportToFlashcardHero ==
    Exported("flashcard_hero", FlashFile(questions), Len(FlashLines(questions)))

\* docx.export_to_docx(questions, output_path)
ExportToDocx ==
    Exported("docx", DocxFile(questions), Len(questions))

\* quiz_html.export_to_quiz_html(questions, output_path, title)
ExportToQuizHtml ==
    \E title \in Titles :
        Exported("quiz_html", HtmlFile(questions, title), HtmlSize(questions, title))

ExportNext ==
    \/ ExportToAnkiAllInOne
    \/ ExportToAnkiBasic
    \/ ExportToFlashcardHero
    \/ ExportToDocx
    \/ ExportToQuizHtml

ExportSpec == ExportInit /\ [][ExportNext]_vars

----------------------------------------------------------------------------
(* cli.py: the export commands flashhero, anki and quiz_html *)

\* number of fragments the input file of a command is made of, at most
MaxCliFragments == 2

\* the input files of the commands
CliFiles == {StrJoin(fragments, "\n") : fragments \in SeqsUpTo(Fragments, MaxCliFragments)}

\* the command lines: the three commands, the two formats of anki, the
\* titles of quiz_html, with and without --force
CommandLines ==
    {Args("flashhero", "", "", f) : f \in BOOLEAN}
    \cup {Args("anki", t, "", f) : t \in {"quiz", "recall"}, f \in BOOLEAN}
    \cup {Args("quiz_html", "", t, f) : t \in Titles, f \in BOOLEAN}

\* a command is started: the input file exists or not, the output path holds
\* a file or not
CliInit ==
    /\ fileExists \in BOOLEAN
    /\ content \in (IF fileExists THEN CliFiles ELSE {""})
    /\ parsers = <<>>
    /\ cur = 0
    /\ pc = "idle"
    /\ blocks = <<>>
    /\ idx = 0
    /\ current_line = 0
    /\ calls = <<>>
    /\ questions = <<>>
    /\ exportCount = 0
    /\ lastExport = NoExport
    /\ args \in CommandLines
    /\ cliPc = "start"
    /\ output_before \in {AbsentFile, File(<<"old">>)}
    /\ output_file = output_before
    /\ stderr = <<>>
    /\ NoPage

\* @click.argument("input_file", type=click.Path(exists=True)): the command
\* is not entered when the input file does not exist
CliValidateInput ==
    /\ cliPc = "start"
    /\ IF fileExists
       THEN cliPc' = "entered" /\ UNCHANGED stderr
       ELSE cliPc' = "usage_error" /\ stderr' = Append(stderr, "does not exist")
    /\ UNCHANGED <<args, output_file, output_before, parserVars, exportVars, appVars>>

\* CliCheckOutput without the check: an existing file is overwritten
CliCheckOutputSkipped ==
    /\ cliPc = "entered"
    /\ cliPc' = "parsing"
    /\ UNCHANGED <<args, output_file, output_before, stderr, parserVars, exportVars, appVars>>

\* the check of the output file (lines 96-101, 222-227, 358-363)
CliCheckOutput ==
    /\ cliPc = "entered"
    /\ IF output_file.exists /\ ~args.force
       THEN cliPc' = "aborted" /\ stderr' = Append(stderr, "already exists")
       ELSE cliPc' = "parsing" /\ UNCHANGED stderr
    /\ UNCHANGED <<args, output_file, output_before, parserVars, exportVars, appVars>>

\* questions = parse_quiz_file(input_file), step by step
CliParse ==
    /\ cliPc = "parsing"
    /\ \/ pc = "idle" /\ ParseQuizFile
       \/ ParseBlock
       \/ ParseFinish

\* the except clauses of the parse (lines 115-125, 241-251, 377-387)
CliParseFailed ==
    /\ cliPc = "parsing"
    /\ pc = "raised"
    /\ cliPc' = "aborted"
    /\ stderr' = Append(stderr, IF calls[Len(calls)].outcome = "not_found" THEN "not found"
                                ELSE "Error parsing quiz file")
    /\ UNCHANGED <<args, output_file, output_before, parserVars, exportVars, appVars>>

\* lines 254-262: the warning of anki for the AllInOne format
OverLimit(qs) == {k \in 1..Len(qs) : Len(qs[k].answers) > 5}

\* what the command's exporter writes and returns for the parsed questions
CliOutput(qs) ==
    IF args.command = "flashhero"
    THEN [exporter |-> "flashcard_hero", output |-> FlashFile(qs), returned |-> Len(qs),
          texts |-> <<FlashFile(qs)>>]
    ELSE IF args.command = "anki" /\ args.format_type = "recall"
    THEN [exporter |-> "anki_basic", output |-> BasicFile(qs), returned |-> Len(qs),
          texts |-> <<BasicFile(qs)>>]
    ELSE IF args.command = "anki"
    THEN [exporter |-> "anki_allinone", output |-> AllInOneFile(qs), returned |-> Len(qs),
          texts |-> <<AllInOneFile(qs)>>]
    ELSE [exporter |-> "quiz_html", output |-> HtmlFile(qs, args.title),
          returned |-> HtmlSize(qs, args.title),
          texts |-> <<HtmlFile(qs, args.title).title, HtmlFile(qs, args.title).quiz_data>>]

\* the export of the parsed questions (lines 128-132, 253-278, 390-397)
CliExport ==
    /\ cliPc = "parsing"
    /\ pc = "returned"
    /\ LET qs == calls[Len(calls)].result
           out == CliOutput(qs)
       IN  /\ questions' = qs
           /\ exportCount' = exportCount + 1
           /\ lastExport' = ExportRecord(out.exporter, qs, out.output, out.returned)
           /\ output_file' = File(out.texts)
           /\ stderr' = IF args.command = "anki" /\ args.format_type = "quiz" /\ OverLimit(qs) # {}
                        THEN Append(stderr, "more than 5 answer options")
                        ELSE stderr
    /\ cliPc' = "done"
    /\ UNCHANGED <<args, output_before, parserVars, appVars>>

CliNext ==
    \/ CliValidateInput
    \/ CliCheckOutput
    \/ CliParse
    \/ CliParseFailed
    \/ CliExport

CliSpec == CliInit /\ [][CliNext]_vars

----------------------------------------------------------------------------
(* quiz_html.py: the QuizApp of the generated page (_build_javascript).     *)
(* Arrays are sequences, so the element at the JavaScript index i is the    *)
(* (i + 1)-th; objects used as maps (answers, checked) are functions on     *)
(* their keys.  The texts the page renders are left to the exporter above.  *)

\* null, for the fields that hold a number
NULL == -1
\* Date.now(): the clock is not modelled, every time is this one value
NOW == 1

\* the object QUIZ_DATA denotes: _build_quiz_data and _question_to_dict
QuizData(qs, title) ==
    [title |-> title,
     questions |->
         [k \in 1..Len(qs) |->
             [category |-> ExtractCategory(qs[k].text),
              text |-> CleanQuestionText(qs[k].text),
              type |-> qs[k].question_type,
              answers |-> [a \in 1..Len(qs[k].answers) |->
                              [text |-> qs[k].answers[a].text,
                               correct |-> qs[k].answers[a].is_correct]],
              reason |-> qs[k].reason]]]

\* QuizApp.prepareQuestions
PrepareQuestions(data) ==
    [k \in 1..Len(data.questions) |->
        [category |-> data.questions[k].category,
         text |-> data.questions[k].text,
         type |-> data.questions[k].type,
         answers |-> [a \in 1..Len(data.questions[k].answers) |->
                         [text |-> data.questions[k].answers[a].text,
                          correct |-> data.questions[k].answers[a].correct,
                          originalIndex |-> a - 1]],
         reason |-> data.questions[k].reason,
         originalIndex |-> k - 1]]

\* the config of initializeState (boldQuestions and darkMode, which only
\* style the page, are left out)
DefaultConfig ==
    [shuffleQuestions |-> FALSE, shuffleAnswers |-> FALSE, autoAdvance |-> FALSE,
     autoAdvanceDelay |-> 3, timerEnabled |-> FALSE, timerMinutes |-> 90]

\* QuizApp.initializeState
InitializeState(data) ==
    [currentPage |-> "intro",
     currentQuestionIndex |-> 0,
     config |-> DefaultConfig,
     questions |-> PrepareQuestions(data),
     answers |-> EmptyObject,
     checked |-> EmptyObject,
     startTime |-> NULL,
     endTime |-> NULL,
     timerSeconds |-> NULL,
     timerInterval |-> NULL,
     timerPaused |-> FALSE]

\* QuizApp.shuffleArray: every order of the array can come out
ShuffleArray(array) ==
    {[k \in 1..Len(array) |-> array[p[k]]] : p \in Permutations(1..Len(array))}

\* the orders of the answers of each question of qs
RECURSIVE ShuffleAnswers(_)
ShuffleAnswers(qs) ==
    IF qs = <<>> THEN {<<>>}
    ELSE {<<[Head(qs) EXCEPT !.answers = a]>> \o rest :
             a \in ShuffleArray(Head(qs).answers), rest \in ShuffleAnswers(Tail(qs))}

\* QuizApp.applyShuffling: the values state.questions can get
ApplyShuffling(s) ==
    LET shuffled == IF s.config.shuffleQuestions THEN ShuffleArray(s.questions)
                    ELSE {s.questions}
    IN  IF s.config.shuffleAnswers THEN UNION {ShuffleAnswers(qs) : qs \in shuffled}
        ELSE shuffled

\* QuizApp.goToQuestion, without its saveState and render
GoToQuestion(s, index) ==
    [s EXCEPT !.currentPage = "question", !.currentQuestionIndex = index]

\* QuizApp.goToReview, without its saveState and render
GoToReview(s, index) ==
    [s EXCEPT !.currentPage = "review", !.currentQuestionIndex = index]

\* QuizApp.stopTimer: the state, and the timers of the page that stay set
StopTimerState(s) == IF s.timerInterval # NULL THEN [s EXCEPT !.timerInterval = NULL] ELSE s
StopTimerTimers(s) ==
    IF s.timerInterval # NULL THEN {t \in timers : t.id # s.timerInterval} ELSE timers

\* QuizApp.goToStatistics, without its saveState and render
GoToStatistics(s) ==
    StopTimerState([s EXCEPT !.currentPage = "statistics", !.endTime = NOW])

\* this.state.answers[questionIndex] || []
Selected(s, questionIndex) ==
    IF questionIndex \in DOMAIN s.answers THEN s.answers[questionIndex] ELSE <<>>

\* obj[key] = value
SetKey(obj, key, value) ==
    [k \in DOMAIN obj \cup {key} |-> IF k = key THEN value ELSE obj[k]]

\* array.indexOf(x) > -1
Includes(array, x) == \E k \in 1..Len(array) : array[k] = x

\* array.splice(array.indexOf(x), 1)
Splice(array, x) ==
    LET at == SetMin({k \in 1..Len(array) : array[k] = x})
    IN  SubSeq(array, 1, at - 1) \o SubSeq(array, at + 1, Len(array))

\* selectAnswer that changes the selection of a checked question too
SelectAnswerOfChecked(s, questionIndex, answerIndex, isMultiple) ==
    IF isMultiple
    THEN [s EXCEPT !.answers =
             SetKey(@, questionIndex,
                    IF Includes(Selected(s, questionIndex), answerIndex)
                    THEN Splice(Selected(s, questionIndex), answerIndex)
                    ELSE Append(Selected(s, questionIndex), answerIndex))]
    ELSE [s EXCEPT !.answers = SetKey(@, questionIndex, <<answerIndex>>)]

\* QuizApp.selectAnswer, without its saveState and render
SelectAnswer(s, questionIndex, answerIndex, isMultiple) ==
    IF questionIndex \in DOMAIN s.checked
    THEN s
    ELSE IF isMultiple
    THEN [s EXCEPT !.answers =
             SetKey(@, questionIndex,
                    IF Includes(Selected(s, questionIndex), answerIndex)
                    THEN Splice(Selected(s, questionIndex), answerIndex)
                    ELSE Append(Selected(s, questionIndex), answerIndex))]
    ELSE [s EXCEPT !.answers = SetKey(@, questionIndex, <<answerIndex>>)]

\* QuizApp.checkAnswer, without its saveState and render
CheckAnswer(s, questionIndex) ==
    IF Len(Selected(s, questionIndex)) = 0
    THEN s
    ELSE [s EXCEPT !.checked = SetKey(@, questionIndex, TRUE)]

\* array.sort() of an array of indices below 10
RECURSIVE SortArray(_)
SortArray(array) ==
    IF array = <<>> THEN <<>>
    ELSE LET least == SetMin({array[k] : k \in 1..Len(array)})
         IN  <<least>> \o SortArray(Splice(array, least))

\* the n-th least member of a set of indices
Nth0(S, n) == CHOOSE i \in S : Cardinality({k \in S : k < i}) = n - 1

\* QuizApp.isAnswerCorrect
IsAnswerCorrect(s, questionIndex) ==
    LET question == s.questions[questionIndex + 1]
        selectedIndices == Selected(s, questionIndex)
        flagged == {i \in 0..(Len(question.answers) - 1) : question.answers[i + 1].correct}
        correctIndices == [n \in 1..Cardinality(flagged) |-> Nth0(flagged, n)]
    IN  IF Len(selectedIndices) # Len(correctIndices) THEN FALSE
        ELSE \A k \in 1..Len(selectedIndices) :
                 SortArray(selectedIndices)[k] = SortArray(correctIndices)[k]

\* QuizApp.calculateScore
CalculateScore(s) ==
    LET total == Len(s.questions)
        answered == Cardinality(DOMAIN s.checked)
        correct == Cardinality({i \in DOMAIN s.checked : IsAnswerCorrect(s, i)})
    IN  [total |-> total, answered |-> answered, correct |-> correct,
         percentage |-> IF total > 0 THEN (200 * correct + total) \div (2 * total) ELSE 0]

\* renderStatistics: the questions the overview shows with the correct icon
OverviewCorrect(s) == {i \in 0..(Len(s.questions) - 1) : IsAnswerCorrect(s, i)}
\* saveState and loadState: JSON.stringify and JSON.parse of the state, every
\* field of which is a JSON value; the item 'quizState' holds it or is not set
SaveState(s) == <<s>>
LoadState == IF sessionStorage = <<>> THEN InitializeState(quizData) ELSE sessionStorage[1]

\* the question the page shows
CurrentQuestion == state.questions[state.currentQuestionIndex + 1]

\* QuizApp.nextQuestion, without its saveState and render
NextQuestion(s) ==
    IF s.currentQuestionIndex < Len(s.questions) - 1
    THEN GoToQuestion(s, s.currentQuestionIndex + 1)
    ELSE GoToStatistics(s)

\* QuizApp.previousQuestion, without its saveState and render
PreviousQuestion(s) ==
    IF s.currentQuestionIndex > 0 THEN GoToQuestion(s, s.currentQuestionIndex - 1) ELSE s

MaxTimers == 2

\* the quizzes the page is generated from
QuizQuestionLists ==
    {<<Question("Q1", <<Answer("a", TRUE), Answer("b", FALSE)>>, "R", "single"),
       Question("Q2", <<Answer("a", TRUE), Answer("b", FALSE), Answer("c", TRUE)>>,
                "", "multiple")>>}
TimedQuestionLists == {<<Question("Q1", <<Answer("a", TRUE)>>, "", "single")>>}

\* what the intro form holds when start-quiz is clicked
Forms ==
    [shuffleQuestions : BOOLEAN, shuffleAnswers : BOOLEAN, autoAdvance : BOOLEAN,
     autoAdvanceDelay : {3}, timerEnabled : {FALSE}, timerMinutes : {90}]
TimedForms ==
    [shuffleQuestions : {FALSE}, shuffleAnswers : {FALSE}, autoAdvance : {FALSE},
     autoAdvanceDelay : {3}, timerEnabled : {TRUE}, timerMinutes : {1}]

\* new QuizApp(QUIZ_DATA) on the first load of a page generated from qs
PageLoaded(lists) ==
    /\ fileExists = FALSE
    /\ content = ""
    /\ parsers = <<>>
    /\ cur = 0
    /\ pc = "idle"
    /\ blocks = <<>>
    /\ idx = 0
    /\ current_line = 0
    /\ calls = <<>>
    /\ questions = <<>>
    /\ exportCount = 0
    /\ lastExport = NoExport
    /\ NoCommand
    /\ quizData \in {QuizData(qs, "T") : qs \in lists}
    /\ state = InitializeState(quizData)
    /\ sessionStorage = <<>>
    /\ timers = {}
    /\ nextTimerId = 1
    /\ modal = FALSE
    /\ checkedWith = EmptyObject

AppInit == PageLoaded(QuizQuestionLists)
TimerInit == PageLoaded(TimedQuestionLists)

\* the start-quiz click: the form goes to the config, then startQuiz
ClickStart(forms) ==
    /\ state.currentPage = "intro"
    /\ ~modal
    /\ \E form \in forms :
        LET configured == [state EXCEPT !.config = form]
        IN  \E shuffled \in ApplyShuffling(configured) :
            LET started == [configured EXCEPT !.questions = shuffled,
                                              !.startTime = NOW,
                                              !.currentPage = "question",
                                              !.currentQuestionIndex = 0,
                                              !.answers = EmptyObject,
                                              !.checked = EmptyObject]
            IN  IF form.timerEnabled
                THEN /\ nextTimerId <= MaxTimers
                     /\ state' = [started EXCEPT !.timerSeconds = form.timerMinutes * 60,
                                                 !.timerPaused = FALSE,
                                                 !.timerInterval = nextTimerId]
                     /\ timers' = {t \in timers : t.id # state.timerInterval}
                                      \cup {[id |-> nextTimerId, callback |-> "tick"]}
                     /\ nextTimerId' = nextTimerId + 1
                ELSE /\ state' = started
                     /\ UNCHANGED <<timers, nextTimerId>>
    /\ sessionStorage' = SaveState(state')
    /\ checkedWith' = EmptyObject
    /\ UNCHANGED <<quizData, modal, parserVars, exportVars, cliVars>>

\* a click on the answer with index answerIndex of the question shown
ClickAnswer ==
    /\ state.currentPage = "question"
    /\ ~modal
    /\ \E answerIndex \in 0..(Len(CurrentQuestion.answers) - 1) :
        state' = SelectAnswer(state, state.currentQuestionIndex, answerIndex,
                              CurrentQuestion.type = "multiple")
    /\ sessionStorage' = IF state.currentQuestionIndex \in DOMAIN state.checked
                         THEN sessionStorage ELSE SaveState(state')
    /\ UNCHANGED <<quizData, timers, nextTimerId, modal, checkedWith,
                   parserVars, exportVars, cliVars>>

\* the check-answer click; the button is there while the question is not checked
ClickCheckAnswer ==
    /\ state.currentPage = "question"
    /\ ~modal
    /\ state.currentQuestionIndex \notin DOMAIN state.checked
    /\ state' = CheckAnswer(state, state.currentQuestionIndex)
    /\ IF state.currentQuestionIndex \in DOMAIN state'.checked
       THEN /\ sessionStorage' = SaveState(state')
            /\ checkedWith' = SetKey(checkedWith, state.currentQuestionIndex,
                                     Selected(state, state.currentQuestionIndex))
       ELSE UNCHANGED <<sessionStorage, checkedWith>>
    /\ UNCHANGED <<quizData, timers, nextTimerId, modal, parserVars, exportVars, cliVars>>

\* the next-question click; the button is there on every question but the last
ClickNextQuestion ==
    /\ state.currentPage = "question"
    /\ ~modal
    /\ state.currentQuestionIndex # Len(state.questions) - 1
    /\ state' = NextQuestion(state)
    /\ sessionStorage' = SaveState(state')
    /\ UNCHANGED <<quizData, timers, nextTimerId, modal, checkedWith,
                   parserVars, exportVars, cliVars>>

\* the prev-question click; the button is there on every question but the first
ClickPrevQuestion ==
    /\ state.currentPage = "question"
    /\ ~modal
    /\ state.currentQuestionIndex > 0
    /\ state' = PreviousQuestion(state)
    /\ sessionStorage' = SaveState(state')
    /\ UNCHANGED <<quizData, timers, nextTimerId, modal, checkedWith,
                   parserVars, exportVars, cliVars>>

\* the submit-quiz click; the button is there on the last question
ClickSubmitQuiz ==
    /\ state.currentPage = "question"
    /\ ~modal
    /\ state.currentQuestionIndex = Len(state.questions) - 1
    /\ state' = GoToStatistics(state)
    /\ timers' = StopTimerTimers(state)
    /\ sessionStorage' = SaveState(state')
    /\ UNCHANGED <<quizData, nextTimerId, modal, checkedWith,
                   parserVars, exportVars, cliVars>>

\* the timer-toggle click: pauseTimer or resumeTimer
ClickTimerToggle ==
    /\ state.currentPage = "question"
    /\ ~modal
    /\ state.config.timerEnabled
    /\ state' = [state EXCEPT !.timerPaused = ~state.timerPaused]
    /\ sessionStorage' = SaveState(state')
    /\ UNCHANGED <<quizData, timers, nextTimerId, modal, checkedWith,
                   parserVars, exportVars, cliVars>>

\* the callback startTimer sets, run once; handleTimeUp is part of it
Tick ==
    /\ \E t \in timers : t.callback = "tick"
    /\ IF ~state.timerPaused /\ state.timerSeconds > 0
       THEN IF state.timerSeconds - 1 = 0
            THEN /\ state' = [StopTimerState(state) EXCEPT !.timerSeconds = 0,
                                                           !.timerPaused = TRUE]
                 /\ timers' = StopTimerTimers(state)
                 /\ modal' = TRUE
            ELSE /\ state' = [state EXCEPT !.timerSeconds = @ - 1]
                 /\ UNCHANGED <<timers, modal>>
       ELSE UNCHANGED <<state, timers, modal>>
    /\ UNCHANGED <<quizData, sessionStorage, nextTimerId, checkedWith,
                   parserVars, exportVars, cliVars>>

\* the time-up-ok click of the modal handleTimeUp shows: finishQuiz
ClickTimeUpOk ==
    /\ modal
    /\ modal' = FALSE
    /\ state' = GoToStatistics(state)
    /\ timers' = StopTimerTimers(state)
    /\ sessionStorage' = SaveState(state')
    /\ UNCHANGED <<quizData, nextTimerId, checkedWith, parserVars, exportVars, cliVars>>

\* the restart-quiz click, confirmed: restartQuiz
ClickRestart ==
    /\ state.currentPage = "statistics"
    /\ ~modal
    /\ state' = InitializeState(quizData)
    /\ sessionStorage' = SaveState(state')
    /\ checkedWith' = EmptyObject
    /\ UNCHANGED <<quizData, timers, nextTimerId, modal, parserVars, exportVars, cliVars>>

\* the back-to-last click of the statistics page
ClickBackToLast ==
    /\ state.currentPage = "statistics"
    /\ ~modal
    /\ state' = GoToQuestion(state, Len(state.questions) - 1)
    /\ sessionStorage' = SaveState(state')
    /\ UNCHANGED <<quizData, timers, nextTimerId, modal, checkedWith,
                   parserVars, exportVars, cliVars>>

\* a click on a question of the overview of the statistics page
ClickReview ==
    /\ state.currentPage = "statistics"
    /\ ~modal
    /\ \E index \in 0..(Len(state.questions) - 1) : state' = GoToReview(state, index)
    /\ sessionStorage' = SaveState(state')
    /\ UNCHANGED <<quizData, timers, nextTimerId, modal, checkedWith,
                   parserVars, exportVars, cliVars>>

\* the back-to-statistics click of the review page
ClickBackToStatistics ==
    /\ state.currentPage = "review"
    /\ ~modal
    /\ state' = GoToStatistics(state)
    /\ timers' = StopTimerTimers(state)
    /\ sessionStorage' = SaveState(state')
    /\ UNCHANGED <<quizData, nextTimerId, modal, checkedWith,
                   parserVars, exportVars, cliVars>>

\* the page is loaded again in the same tab: a new QuizApp over the saved
\* state, with none of the timers of the page before
Reload ==
    /\ state' = LoadState
    /\ timers' = {}
    /\ nextTimerId' = 1
    /\ modal' = FALSE
    /\ UNCHANGED <<quizData, sessionStorage, checkedWith, parserVars, exportVars, cliVars>>

\* the events of a page without a timer
AppNext ==
    \/ ClickStart(Forms)
    \/ ClickAnswer
    \/ ClickCheckAnswer
    \/ ClickNextQuestion
    \/ ClickPrevQuestion
    \/ ClickSubmitQuiz
    \/ ClickRestart
    \/ ClickBackToLast
    \/ ClickReview
    \/ ClickBackToStatistics
    \/ Reload

AppSpec == AppInit /\ [][AppNext]_vars

\* the events of a page whose quiz is started with the timer
TimerNext ==
    \/ ClickStart(TimedForms)
    \/ ClickAnswer
    \/ ClickCheckAnswer
    \/ ClickSubmitQuiz
    \/ ClickTimerToggle
    \/ Tick
    \/ ClickTimeUpOk
    \/ ClickRestart
    \/ ClickBackToLast
    \/ ClickReview
    \/ ClickBackToStatistics
    \/ Reload

TimerSpec == TimerInit /\ [][TimerNext]_vars

----------------------------------------------------------------------------
(* Notions the properties below are stated in.  They are defined on the     *)
(* text of the file and of a block, line by line, and use none of the       *)
(* operators of _parse_question_block.                                      *)

\* the answer-line shapes of the file format: "- (X) text" / "- [X] text"
ParenLine(line) == SINGLE_CHOICE_PATTERN(line).matched
BracketLine(line) == MULTIPLE_CHOICE_PATTERN(line).matched
AnswerShaped(line) == ParenLine(line) \/ BracketLine(line)
Flagged(line) ==
    \/ SINGLE_CHOICE_PATTERN(line).flag \in {"X", "x"}
    \/ MULTIPLE_CHOICE_PATTERN(line).flag \in {"X", "x"}

BlankLine(line) == \A k \in 1..Len(line) : Ch(line, k) \in Whitespace
MarkerLine(line) == StrLower(StrStrip(line)) = "# reason"

LinesOf(text) == StrSplit(text, "\n")

\* 1-based index of the first line of L from position `from` on that satisfies
\* the test, Len(L) + 1 when there is none
FirstAnswerFrom(L, from) ==
    SetMin({k \in from..(Len(L) + 1) : k = Len(L) + 1 \/ AnswerShaped(L[k])})
FirstMarkerFrom(L, from) ==
    SetMin({k \in from..(Len(L) + 1) : k = Len(L) + 1 \/ MarkerLine(L[k])})

\* the answer section of a block: from its first answer line up to, not
\* including, the first reason marker that follows it (or the block's end)
SectionStart(L) == FirstAnswerFrom(L, 1)
SectionEnd(L) == FirstMarkerFrom(L, SectionStart(L))
SectionAnswers(L) == {k \in SectionStart(L)..(SectionEnd(L) - 1) : AnswerShaped(L[k])}

\* some non-blank line precedes the first answer line
HasQuestionText(L) == \E k \in 1..(SectionStart(L) - 1) : ~BlankLine(L[k])

\* The calls and the blocks a state shows
NCalls == Len(calls)
LastCall == calls[NCalls]
\* call k ran on a parser no earlier call had used
FreshCall(k) == \A j \in 1..(k - 1) : calls[j].parser # calls[k].parser
\* a call of parse() has just ended (LastCall is its record)
JustEnded == pc \in {"returned", "raised"} /\ NCalls >= 1

\* the loop has just turned block `idx` into a Question
JustParsed == pc = "loop" /\ idx >= 1 /\ StrStrip(blocks[idx]) # ""
ParsedBlock == StrStrip(blocks[idx])
ParsedQuestion == parsers[cur].questions[Len(parsers[cur].questions)]
\* the loop has just failed on block `idx + 1`
JustRaised == pc = "raised" /\ NCalls >= 1 /\ LastCall.outcome = "parse_error"
RaisedBlock == StrStrip(blocks[idx + 1])
RaisedError == LastCall.parse_error

\* the non-empty blocks of the file, trimmed, in file order
RECURSIVE NonEmpty(_)
NonEmpty(bs) ==
    IF bs = <<>> THEN <<>>
    ELSE (IF StrStrip(Head(bs)) = "" THEN <<>> ELSE <<StrStrip(Head(bs))>>)
         \o NonEmpty(Tail(bs))

----------------------------------------------------------------------------
(* C1 *)

WellFormedQuestion(q) ==
    /\ q.text # ""
    /\ q.answers # <<>>
    /\ \E k \in 1..Len(q.answers) : q.answers[k].is_correct

\* C1: every list parse_quiz_file returns is non-empty, holds one Question per
\* non-empty block in the order of the blocks in the file (the k-th Question
\* has the question text of the k-th block), and each Question has a non-empty
\* text, at least one Answer and at least one correct Answer.
C1_ParseResultWellFormed ==
    (JustEnded /\ LastCall.outcome = "returned" /\ FreshCall(NCalls)) =>
        LET result == LastCall.result
            bs == NonEmpty(StrSplit(content, "---"))
        IN  /\ result # <<>>
            /\ Len(result) = Len(bs)
            /\ \A j \in 1..Len(result) :
                   /\ WellFormedQuestion(result[j])
                   /\ LET L == LinesOf(bs[j])
                      IN  result[j].text =
                             StrStrip(StrJoin(SubSeq(L, 1, SectionStart(L) - 1), "\n"))

\* C1 witness: parse_quiz_file has returned two Questions with different texts
C1_Witness ==
    /\ JustEnded /\ LastCall.outcome = "returned" /\ FreshCall(NCalls)
    /\ Len(LastCall.result) >= 2
    /\ LastCall.result[1].text # LastCall.result[2].text

----------------------------------------------------------------------------
(* C2 *)

\* C2: the line_number of every ParseError is the 1-indexed line of the file
\* on which line_content appears (the file's line holds line_content; it may
\* hold more, since the block was trimmed before it was cut into lines).
C2_LineNumberIsFileLine ==
    JustRaised =>
        LET file_lines == LinesOf(content)
        IN  /\ RaisedError.line_number \in 1..Len(file_lines)
            /\ StrFind(file_lines[RaisedError.line_number], RaisedError.line_content) # 0

----------------------------------------------------------------------------
(* C3 *)

\* C3: the file is cut into blocks at the lines that are exactly "---" and
\* nowhere else: there is one block more than there are such lines.
C3_SplitOnlyAtSeparatorLines ==
    pc = "loop" =>
        Len(blocks) = 1 + Cardinality({k \in 1..Len(LinesOf(content)) :
                                          LinesOf(content)[k] = "---"})

----------------------------------------------------------------------------
(* C7 *)

\* C7: two successive parses of the file return equal lists, and the list the
\* earlier parse returned is still what it was when it was returned (a
\* returned list is the questions attribute of the parser that returned it).
C7_SuccessiveParsesAgree ==
    \A k \in 1..(NCalls - 1) :
        (calls[k].outcome = "returned" /\ calls[k + 1].outcome = "returned") =>
            /\ calls[k + 1].result = calls[k].result
            /\ parsers[calls[k].parser].questions = calls[k].result

----------------------------------------------------------------------------
(* C4 *)

\* answer lines of both shapes somewhere in the block / in its answer section
BothShapes(L) ==
    (\E k \in 1..Len(L) : ParenLine(L[k])) /\ (\E k \in 1..Len(L) : BracketLine(L[k]))
SectionMixed(L) ==
    /\ \E k \in SectionAnswers(L) : ParenLine(L[k])
    /\ \E k \in SectionAnswers(L) : BracketLine(L[k])

\* C4 as stated: a block that holds a parenthesis-style and a bracket-style
\* answer line anywhere, the reason section included, never yields a Question
\* and fails with the mixed-answer-types error.
C4_AnyMixFailsAsMixed ==
    /\ JustParsed => ~BothShapes(LinesOf(ParsedBlock))
    /\ (JustRaised /\ BothShapes(LinesOf(RaisedBlock)))
           => RaisedError.error_message = MsgMixed

\* C4 amended: a block whose answer section (first answer line up to the
\* reason marker or the block's end) holds answer lines of both shapes never
\* yields a Question, and if it has question text it fails with the
\* mixed-answer-types error.
C4_SectionMixFailsAsMixed ==
    /\ JustParsed => ~SectionMixed(LinesOf(ParsedBlock))
    /\ (JustRaised /\ SectionMixed(LinesOf(RaisedBlock))
                   /\ HasQuestionText(LinesOf(RaisedBlock)))
           => RaisedError.error_message = MsgMixed

\* C4 witness: a block with question text and both shapes in its answer
\* section has failed with the mixed-answer-types error
C4_Witness ==
    /\ JustRaised
    /\ SectionMixed(LinesOf(RaisedBlock))
    /\ HasQuestionText(LinesOf(RaisedBlock))
    /\ RaisedError.error_message = MsgMixed

----------------------------------------------------------------------------
(* C5 *)

\* the first answer line of the section whose shape is not that of the
\* section's first answer line
FirstDiffering(L) ==
    SetMin({k \in SectionAnswers(L) : ParenLine(L[k]) # ParenLine(L[SectionStart(L)])})

\* the mixed-answer-types error raised exactly at line d of block L: its
\* content and position are reported, and the answers built so far are those
\* of the answer lines before d
MixedRaisedAt(L, d) ==
    /\ RaisedError.error_message = MsgMixed
    /\ RaisedError.line_content = L[d]
    /\ RaisedError.line_number = parsers[cur].line_offset + d
    /\ Len(LastCall.answers) = Cardinality({k \in SectionAnswers(L) : k < d})

\* C5 as stated: whenever the answer section of a block holds both shapes,
\* the mixed-answer-types error is raised at the first line whose shape
\* differs from that of the first answer line.
C5_MixedAtFirstDiffering ==
    /\ JustParsed => ~SectionMixed(LinesOf(ParsedBlock))
    /\ (JustRaised /\ SectionMixed(LinesOf(RaisedBlock)))
           => MixedRaisedAt(LinesOf(RaisedBlock), FirstDiffering(LinesOf(RaisedBlock)))

\* C5 amended: the same, for a block that has question text.
C5_MixedAtFirstDifferingWithText ==
    /\ JustParsed => ~SectionMixed(LinesOf(ParsedBlock))
    /\ (JustRaised /\ SectionMixed(LinesOf(RaisedBlock))
                   /\ HasQuestionText(LinesOf(RaisedBlock)))
           => MixedRaisedAt(LinesOf(RaisedBlock), FirstDiffering(LinesOf(RaisedBlock)))

\* C5 witness: the error was raised at a differing line that two answer lines
\* of the other shape precede
C5_Witness ==
    /\ JustRaised
    /\ SectionMixed(LinesOf(RaisedBlock))
    /\ HasQuestionText(LinesOf(RaisedBlock))
    /\ LET L == LinesOf(RaisedBlock)
       IN  /\ MixedRaisedAt(L, FirstDiffering(L))
           /\ Len(LastCall.answers) >= 2

----------------------------------------------------------------------------
(* C6 *)

\* the answer section has answer lines and none of them is flagged
Unflagged(L) ==
    SectionAnswers(L) # {} /\ \A k \in SectionAnswers(L) : ~Flagged(L[k])

NoCorrectRaisedAtFirst(L) ==
    /\ RaisedError.error_message = MsgNoCorrect
    /\ RaisedError.line_content = L[SectionStart(L)]
    /\ RaisedError.line_number = parsers[cur].line_offset + SectionStart(L)

\* C6 as stated: a block with question text and answers none of which is
\* flagged never yields a Question and fails with the no-correct-answer error
\* at its first answer line.
C6_UnflaggedFailsAsNoCorrect ==
    /\ JustParsed => ~Unflagged(LinesOf(ParsedBlock))
    /\ (JustRaised /\ HasQuestionText(LinesOf(RaisedBlock))
                   /\ Unflagged(LinesOf(RaisedBlock)))
           => NoCorrectRaisedAtFirst(LinesOf(RaisedBlock))

\* C6 amended: the same, for a block whose answer lines all have one shape.
C6_UnflaggedOneShapeFailsAsNoCorrect ==
    /\ JustParsed => ~Unflagged(LinesOf(ParsedBlock))
    /\ (JustRaised /\ HasQuestionText(LinesOf(RaisedBlock))
                   /\ Unflagged(LinesOf(RaisedBlock))
                   /\ ~SectionMixed(LinesOf(RaisedBlock)))
           => NoCorrectRaisedAtFirst(LinesOf(RaisedBlock))

\* C6 witness: the no-correct-answer error of a block with two unflagged
\* answers of one shape, raised at the first of them
C6_Witness ==
    /\ JustRaised
    /\ LET L == LinesOf(RaisedBlock)
       IN  /\ HasQuestionText(L) /\ Unflagged(L) /\ ~SectionMixed(L)
           /\ Cardinality(SectionAnswers(L)) >= 2
           /\ NoCorrectRaisedAtFirst(L)

----------------------------------------------------------------------------
(* C8 *)

\* a block of the file format that is in order: question text, answer lines
\* of one shape, at least one of them flagged
WellFormedBlock(L) ==
    /\ HasQuestionText(L)
    /\ SectionAnswers(L) # {}
    /\ ~SectionMixed(L)
    /\ \E k \in SectionAnswers(L) : Flagged(L[k])

\* the (1-based) numbers of the malformed blocks among bs
MalformedBlocks(bs) ==
    {j \in 1..Len(bs) : StrStrip(bs[j]) # "" /\ ~WellFormedBlock(LinesOf(StrStrip(bs[j])))}

\* C8: if the file has a malformed block, parse raises the error of the first
\* of them in file order (its block number, one of its lines) and returns no
\* list; if it has none, parse raises no such error.  On a parser used for
\* the first time, the Questions built when it raises are those of the blocks
\* before the malformed one: no later block was parsed.
C8_FirstMalformedBlockAborts ==
    (JustEnded /\ LastCall.outcome # "not_found") =>
        LET bs == StrSplit(content, "---")
            bad == MalformedBlocks(bs)
            first == SetMin(bad)
            L == LinesOf(StrStrip(bs[first]))
        IN  IF bad = {} THEN LastCall.outcome # "parse_error"
            ELSE /\ LastCall.outcome = "parse_error"
                 /\ LastCall.result = <<>>
                 /\ LastCall.parse_error.block_number = first
                 /\ \E i \in 1..Len(L) : L[i] = LastCall.parse_error.line_content
                 /\ idx = first - 1
                 /\ FreshCall(NCalls) =>
                        Len(parsers[cur].questions)
                            = Len(NonEmpty(SubSeq(bs, 1, first - 1)))

\* C8 witness: parse has raised on a malformed block that follows a block
\* which gave a Question and precedes a block that was never parsed
C8_Witness ==
    /\ JustRaised
    /\ FreshCall(NCalls)
    /\ RaisedError.block_number >= 2
    /\ Len(parsers[cur].questions) >= 1
    /\ idx + 1 < Len(blocks)
    /\ StrStrip(blocks[Len(blocks)]) # ""

----------------------------------------------------------------------------
(* C9 *)

TextAfter(L, m) ==
    IF m <= Len(L) THEN StrStrip(StrJoin(SubSeq(L, m + 1, Len(L)), "\n")) ELSE ""

\* C9 as stated: reason is the trimmed text after the block's first
\* reason-marker line, and is empty exactly when the block has no such line;
\* no line after that marker is an answer or question text.
C9_ReasonAfterFirstMarker ==
    JustParsed =>
        LET L == LinesOf(ParsedBlock)
            m == FirstMarkerFrom(L, 1)
        IN  /\ ParsedQuestion.reason = TextAfter(L, m)
            /\ (ParsedQuestion.reason = "") <=> (m > Len(L))
            /\ SectionStart(L) < m
            /\ Len(ParsedQuestion.answers)
                   = Cardinality({k \in 1..(m - 1) : AnswerShaped(L[k])})

\* C9 amended: reason is the trimmed text after the first reason-marker line
\* that stands at or after the block's first answer line, and is empty when
\* there is no such line; no line after that marker is an answer or question
\* text (a reason-marker line before the first answer line is question text).
C9_ReasonAfterSectionMarker ==
    JustParsed =>
        LET L == LinesOf(ParsedBlock)
            m == SectionEnd(L)
        IN  /\ ParsedQuestion.reason = TextAfter(L, m)
            /\ m > Len(L) => ParsedQuestion.reason = ""
            /\ ParsedQuestion.text
                   = StrStrip(StrJoin(SubSeq(L, 1, SectionStart(L) - 1), "\n"))
            /\ Len(ParsedQuestion.answers) = Cardinality(SectionAnswers(L))

\* C9 witness: a Question with a non-empty reason whose reason section holds
\* an answer-shaped line
C9_Witness ==
    /\ JustParsed
    /\ ParsedQuestion.reason # ""
    /\ LET L == LinesOf(ParsedBlock)
       IN  \E k \in (SectionEnd(L) + 1)..Len(L) : AnswerShaped(L[k])

----------------------------------------------------------------------------
(* C10 *)

\* what follows the marker on an answer line: the text after the first
\* closing parenthesis or bracket
Remainder(line) ==
    SubSeq(line,
           SetMin({k \in 1..Len(line) : Ch(line, k) \in {")", "]"}}) + 1,
           Len(line))

\* the n-th member of a set of line numbers, in increasing order
Nth(S, n) == CHOOSE i \in S : Cardinality({k \in S : k < i}) = n - 1

\* the line after the last line of the answer that starts on line i
AnswerEnd(L, i) == SetMin({k \in SectionAnswers(L) : k > i} \cup {SectionEnd(L)})

\* the text of the answer that starts on line i: the remainder of the marker
\* line and the lines up to the next answer line, the reason marker or the
\* end of the block, joined with newlines and trimmed
AnswerTextAt(L, i) ==
    StrStrip(StrJoin(<<Remainder(L[i])>> \o SubSeq(L, i + 1, AnswerEnd(L, i) - 1), "\n"))

\* C10: the Answers of a parsed block correspond one to one, in order, to the
\* answer lines of its answer section, and the text of each is AnswerTextAt.
C10_AnswersFollowAnswerLines ==
    JustParsed =>
        LET L == LinesOf(ParsedBlock)
            S == SectionAnswers(L)
            answers == ParsedQuestion.answers
        IN  /\ Len(answers) = Cardinality(S)
            /\ \A n \in 1..Len(answers) :
                   answers[n].text = AnswerTextAt(L, Nth(S, n))

\* C10 witness: a parsed block with an answer line that has nothing after its
\* marker and gets its text from the lines that follow, and another answer
\* after it
C10_Witness ==
    /\ JustParsed
    /\ LET L == LinesOf(ParsedBlock)
           S == SectionAnswers(L)
       IN  \E n \in 1..(Len(ParsedQuestion.answers) - 1) :
               /\ StrStrip(Remainder(L[Nth(S, n)])) = ""
               /\ ParsedQuestion.answers[n].text # ""

----------------------------------------------------------------------------
(* C11 *)

\* the position in the text of a block at which its k-th line starts
RECURSIVE LineStart(_, _)
LineStart(L, k) == IF k <= 1 THEN 1 ELSE LineStart(L, k - 1) + Len(L[k - 1]) + 1

\* C11: Question.text is the part of the block that precedes its first answer
\* line, character for character (line breaks and blank lines included),
\* without the whitespace at its two ends; nothing at or after the first
\* answer line is in it.
C11_TextIsBlockBeforeFirstAnswer ==
    JustParsed =>
        LET L == LinesOf(ParsedBlock)
            first == LineStart(L, SectionStart(L))
            head == SubSeq(ParsedBlock, 1, first - 1)
            text == ParsedQuestion.text
        IN  /\ text # ""
            /\ Ch(text, 1) \notin Whitespace
            /\ Ch(text, Len(text)) \notin Whitespace
            /\ SubSeq(head, 1, Len(text)) = text
            /\ BlankLine(SubSeq(head, Len(text) + 1, Len(head)))

\* C11 witness: a Question whose text spans three lines, the middle one blank
C11_Witness ==
    /\ JustParsed
    /\ StrFind(ParsedQuestion.text, "\n\n") # 0

----------------------------------------------------------------------------
(* C12 *)

\* the number of Answers of q that are correct
CorrectCount(q) == Cardinality({k \in 1..Len(q.answers) : q.answers[k].is_correct})

\* C12: the question_type of a parsed Question is "single" or "multiple";
\* it is "single" exactly when all the answer lines of the block's answer
\* section have the parenthesis marker and "multiple" exactly when all have
\* the bracket marker, however many of them are flagged.
C12_TypeFollowsMarkerShape ==
    JustParsed =>
        LET L == LinesOf(ParsedBlock)
            S == SectionAnswers(L)
        IN  /\ ParsedQuestion.question_type \in {"single", "multiple"}
            /\ ParsedQuestion.question_type = "single" <=> \A k \in S : ParenLine(L[k])
            /\ ParsedQuestion.question_type = "multiple" <=> \A k \in S : BracketLine(L[k])

\* C12 witness: a "multiple" Question with two bracket answers of which
\* exactly one is correct
C12_Witness ==
    /\ JustParsed
    /\ ParsedQuestion.question_type = "multiple"
    /\ Len(ParsedQuestion.answers) = 2
    /\ CorrectCount(ParsedQuestion) = 1

----------------------------------------------------------------------------
(* C13 *)

\* the running call is the first one on its parser
RunningFresh == \A j \in 1..NCalls : calls[j].parser # cur

\* the number of blocks among the first n of bs that hold something else than
\* whitespace
Filled(bs, n) == Cardinality({j \in 1..n : ~BlankLine(bs[j])})

\* C13: a block that is empty or holds only whitespace gives neither a
\* Question nor an error.  On a parser used for the first time, the Questions
\* built after n blocks are as many as the non-blank blocks among them, so the
\* list returned has one Question per non-blank block of the file; and parse
\* fails with "No questions found in the quiz file", without a ParseError,
\* exactly when the file has no non-blank block.
C13_BlankBlocksAreSkipped ==
    /\ (pc = "loop" /\ RunningFresh) =>
           Len(parsers[cur].questions) = Filled(blocks, idx)
    /\ JustRaised => ~BlankLine(blocks[idx + 1])
    /\ (JustEnded /\ LastCall.outcome # "not_found") =>
           /\ (LastCall.outcome = "no_questions") <=> (Filled(blocks, Len(blocks)) = 0)
           /\ LastCall.outcome = "no_questions" =>
                  /\ LastCall.message = [at_line |-> 0, text |-> "No questions found in the quiz file"]
                  /\ LastCall.parse_error = NoParseError
           /\ (LastCall.outcome = "returned" /\ FreshCall(NCalls)) =>
                  Len(LastCall.result) = Filled(blocks, Len(blocks))

\* C13 witness: parse_quiz_file has returned one Question for a file of three
\* blocks, one of which holds only whitespace and one of which is empty
C13_Witness ==
    /\ JustEnded /\ LastCall.outcome = "returned" /\ FreshCall(NCalls)
    /\ Len(LastCall.result) = 1
    /\ Len(blocks) = 3
    /\ \E j \in 1..3 : blocks[j] # "" /\ BlankLine(blocks[j])
    /\ \E j \in 1..3 : blocks[j] = ""

\* C13 witness of the failure: a file of separators and blank lines only
C13_WitnessNoQuestions ==
    /\ JustEnded /\ LastCall.outcome = "no_questions"
    /\ Len(blocks) >= 2

----------------------------------------------------------------------------
(* C14 *)

\* the 0-based index in its block of the line the last error points at
RaisedIndex == RaisedError.line_number - parsers[cur].line_offset - 1

\* C14: an error reported at in-block index k of a block of n lines has as
\* context_before the min(2, k) lines of the block just before line k and as
\* context_after the min(2, n - 1 - k) lines just after it, in file order;
\* no context line holds the separator.
C14_ContextClippedToBlock ==
    JustRaised =>
        LET L == LinesOf(RaisedBlock)
            n == Len(L)
            k == RaisedIndex
            before == RaisedError.context_before
            after == RaisedError.context_after
        IN  /\ k \in 0..(n - 1)
            /\ L[k + 1] = RaisedError.line_content
            /\ Len(before) = (IF k < 2 THEN k ELSE 2)
            /\ Len(after) = (IF n - 1 - k < 2 THEN n - 1 - k ELSE 2)
            /\ \A j \in 1..Len(before) : before[j] = L[k + 1 - Len(before) + j - 1]
            /\ \A j \in 1..Len(after) : after[j] = L[k + 1 + j]
            /\ \A j \in 1..Len(before) : StrFind(before[j], "---") = 0
            /\ \A j \in 1..Len(after) : StrFind(after[j], "---") = 0

\* C14 witness: an error in the second block of a file, at the block's second
\* line: the one line before it is the whole context, the separator line and
\* the first block are not in it
C14_Witness ==
    /\ JustRaised
    /\ RaisedError.block_number >= 2
    /\ \E j \in 1..Len(LinesOf(content)) : LinesOf(content)[j] = "---"
    /\ RaisedIndex = 1
    /\ Len(RaisedError.context_before) = 1
    /\ RaisedError.context_after = <<>>

\* C14 witness of an unclipped context: two lines before and one after
C14_WitnessFull ==
    /\ JustRaised
    /\ Len(RaisedError.context_before) = 2
    /\ Len(RaisedError.context_after) >= 1

----------------------------------------------------------------------------
(* C15 *)

BlockMessages == {MsgNoQuestionText, MsgNoAnswers, MsgNoCorrect, MsgMixed}

----------------------------------------------------------------------------
(* C16 *)

\* C16: a block gives a Question only if it has question text; a block fails
\* with "No question text found" exactly when no non-blank line precedes its
\* first answer line, that is when its first line is an answer line.  The
\* ParseError then points at the first line of the block (index 0, nothing
\* before it), carries the number of the block, and no Answer was built.
C16_NoQuestionTextAtFirstLine ==
    /\ JustParsed => HasQuestionText(LinesOf(ParsedBlock))
    /\ JustRaised =>
           LET L == LinesOf(RaisedBlock)
           IN  /\ (RaisedError.error_message = "No question text found")
                      <=> ~HasQuestionText(L)
               /\ ~HasQuestionText(L) <=> AnswerShaped(L[1])
               /\ ~HasQuestionText(L) =>
                      /\ RaisedError.line_content = L[1]
                      /\ RaisedIndex = 0
                      /\ RaisedError.context_before = <<>>
                      /\ RaisedError.block_number = idx + 1
                      /\ LastCall.answers = <<>>

\* C16 witness: the second block of a file starts with answer lines of both
\* shapes and has failed with "No question text found" at its first line
C16_Witness ==
    /\ JustRaised
    /\ RaisedError.error_message = "No question text found"
    /\ RaisedError.block_number = 2
    /\ BothShapes(LinesOf(RaisedBlock))
    /\ RaisedError.line_content = LinesOf(RaisedBlock)[1]

----------------------------------------------------------------------------
(* C17 *)

\* no line of the block has the shape of an answer line
NoAnswerLine(L) == \A k \in 1..Len(L) : ~AnswerShaped(L[k])
\* some line of the block is a reason marker
HasMarker(L) == \E k \in 1..Len(L) : MarkerLine(L[k])

\* C17: no Question has an empty list of Answers; a block without a line of
\* either answer shape (it then has question text) fails with the "No answers
\* found" error, with a ParseError at the block's first line, whether it has
\* a reason marker or not; and no other block fails with that error.
C17_NoAnswersAlwaysFails ==
    /\ JustParsed =>
           /\ ParsedQuestion.answers # <<>>
           /\ ~NoAnswerLine(LinesOf(ParsedBlock))
    /\ JustRaised =>
           LET L == LinesOf(RaisedBlock)
           IN  /\ NoAnswerLine(L) <=>
                      (RaisedError.error_message
                           = "No answers found. Expected format: '- (X) text' or '- [X] text'")
               /\ NoAnswerLine(L) =>
                      /\ HasQuestionText(L)
                      /\ RaisedError # NoParseError
                      /\ RaisedIndex = 0
                      /\ RaisedError.line_content = L[1]
                      /\ LastCall.answers = <<>>

\* C17 witness: a block with question text, a reason marker and a reason but
\* no answer line has failed with the "No answers found" error
C17_Witness ==
    /\ JustRaised
    /\ LET L == LinesOf(RaisedBlock)
       IN  /\ NoAnswerLine(L) /\ HasMarker(L)
           /\ ~MarkerLine(L[1]) /\ ~MarkerLine(L[Len(L)])
    /\ RaisedError.error_message
           = "No answers found. Expected format: '- (X) text' or '- [X] text'"

----------------------------------------------------------------------------
(* C18 *)

\* the position of the flag character on an answer line: right after the
\* opening parenthesis or bracket of its marker
FlagPos(line) == SetMin({k \in 1..Len(line) : Ch(line, k) \in {"(", "["}}) + 1
FlagOf(line) == Ch(line, FlagPos(line))

\* the answer line with its flag in the other case: X for x, x for X
SwapFlag(line) ==
    LET c == FlagOf(line)
        other == IF c = "X" THEN "x" ELSE IF c = "x" THEN "X" ELSE c
    IN  SubSeq(line, 1, FlagPos(line) - 1) \o other
            \o SubSeq(line, FlagPos(line) + 1, Len(line))

\* the block of lines L with the flags of the answer lines T swapped
SwapFlags(L, T) ==
    StrJoin([k \in 1..Len(L) |-> IF k \in T THEN SwapFlag(L[k]) ELSE L[k]], "\n")

\* C18: the n-th Answer of a parsed block is correct exactly when the flag of
\* the n-th answer line is X or x, and incorrect exactly when it is a space,
\* for both marker shapes.  Swapping the case of the flag on any of the answer
\* lines of a block leaves what the parser makes of the block as it is: the
\* same Question, or the same error at the same line of the same block.
C18_FlagCaseIsIrrelevant ==
    /\ JustParsed =>
           LET L == LinesOf(ParsedBlock)
               S == SectionAnswers(L)
               answers == ParsedQuestion.answers
           IN  /\ Len(answers) = Cardinality(S)
               /\ \A n \in 1..Len(answers) :
                      /\ FlagOf(L[Nth(S, n)]) \in {"X", "x", " "}
                      /\ answers[n].is_correct <=> FlagOf(L[Nth(S, n)]) \in {"X", "x"}
                      /\ ~answers[n].is_correct <=> FlagOf(L[Nth(S, n)]) = " "
               /\ \A T \in SUBSET S :
                      LET out == ParseQuestionBlock(parsers[cur].line_offset,
                                                    SwapFlags(L, T), idx)
                      IN  out.ok /\ out.question = ParsedQuestion
    /\ JustRaised =>
           LET L == LinesOf(RaisedBlock)
           IN  \A T \in SUBSET SectionAnswers(L) :
                   LET out == ParseQuestionBlock(parsers[cur].line_offset,
                                                 SwapFlags(L, T), idx + 1)
                   IN  /\ ~out.ok
                       /\ out.error.error_message = RaisedError.error_message
                       /\ out.error.line_number = RaisedError.line_number
                       /\ out.error.block_number = RaisedError.block_number

\* C18 witness: a Question of two bracket answers, the first flagged with a
\* lowercase x and correct, the second with a space and incorrect
C18_Witness ==
    /\ JustParsed
    /\ LET L == LinesOf(ParsedBlock)
           S == SectionAnswers(L)
       IN  /\ Cardinality(S) = 2
           /\ FlagOf(L[Nth(S, 1)]) = "x"
           /\ FlagOf(L[Nth(S, 2)]) = " "
           /\ BracketLine(L[Nth(S, 1)])
    /\ ParsedQuestion.answers[1].is_correct
    /\ ~ParsedQuestion.answers[2].is_correct

----------------------------------------------------------------------------
(* C19 *)

\* C19: no export call changes the list of questions it is given: the list
\* after the call is the list as it was when the call was made, of the same
\* length and order and with the same values in every field of every
\* Question, for all five exporters and for every call in a row of calls.
C19_ExportLeavesQuestionsUnchanged ==
    exportCount >= 1 =>
        /\ questions = lastExport.given
        /\ Len(questions) = Len(lastExport.given)
        /\ \A k \in 1..Len(questions) :
               /\ questions[k].text = lastExport.given[k].text
               /\ questions[k].answers = lastExport.given[k].answers
               /\ questions[k].reason = lastExport.given[k].reason
               /\ questions[k].question_type = lastExport.given[k].question_type

\* C19 witness: a list of two questions with answers and a reason has been
\* exported as many times as the model allows, the last time as a document
C19_Witness ==
    /\ exportCount = MaxExports
    /\ lastExport.exporter = "docx"
    /\ Len(questions) = 2
    /\ questions[1].answers # <<>>
    /\ questions[1].reason # ""

----------------------------------------------------------------------------
(* C20 *)

\* the words of a text: its maximal runs of non-whitespace characters, in
\* the order of their first characters
WordStarts(t) ==
    {a \in 1..Len(t) : Ch(t, a) \notin Whitespace /\ (a = 1 \/ Ch(t, a - 1) \in Whitespace)}
WordEnd(t, a) ==
    SetMin({b \in a..Len(t) : b = Len(t) \/ Ch(t, b + 1) \in Whitespace})
\* the text with every run of whitespace between two words turned into one
\* blank, and none at its ends
Normalized(t) ==
    LET starts == WordStarts(t)
    IN  StrJoin([n \in 1..Cardinality(starts) |->
                    SubSeq(t, Nth(starts, n), WordEnd(t, Nth(starts, n)))], " ")

RECURSIVE QuoteEnd(_, _)
\* the position of the quote that closes a quoted csv field, looked for from
\* position j on: a doubled quote is a quote character of the field
QuoteEnd(s, j) ==
    IF j > Len(s) THEN 0
    ELSE IF Ch(s, j) # "\"" THEN QuoteEnd(s, j + 1)
    ELSE IF j < Len(s) /\ Ch(s, j + 1) = "\"" THEN QuoteEnd(s, j + 2)
    ELSE j

RECURSIVE CsvFieldsFrom(_, _)
\* the fields of the csv record s, read from position i on
CsvFieldsFrom(s, i) ==
    IF i <= Len(s) /\ Ch(s, i) = "\""
    THEN LET e == QuoteEnd(s, i + 1)
             field == StrJoin(StrSplit(SubSeq(s, i + 1, e - 1), "\"\""), "\"")
         IN  IF e = Len(s) THEN <<field>> ELSE <<field>> \o CsvFieldsFrom(s, e + 2)
    ELSE LET seps == {j \in i..Len(s) : Ch(s, j) = ";"}
         IN  IF seps = {} THEN <<SubSeq(s, i, Len(s))>>
             ELSE <<SubSeq(s, i, SetMin(seps) - 1)>> \o CsvFieldsFrom(s, SetMin(seps) + 1)

\* the records of a csv file as a reader with delimiter ";" reads them
CsvFields(record) == CsvFieldsFrom(record, 1)

\* the AllInOne file of the last export: its lines up to the fourth "\n" are
\* the header, what follows are the records, each ended by "\r\n"
AllInOneHeader == SubSeq(StrSplit(lastExport.output, "\n"), 1, 4)
AllInOneBody ==
    LET header == StrJoin(AllInOneHeader, "\n") \o "\n"
    IN  SubSeq(lastExport.output, Len(header) + 1, Len(lastExport.output))
AllInOneRecords ==
    LET parts == StrSplit(AllInOneBody, "\r\n")
    IN  SubSeq(parts, 1, Len(parts) - 1)

\* the Answers field: five bits with a blank between them, the i-th bit 1
\* exactly when the i-th answer exists and is correct
AnswersBits(field, answers) ==
    /\ Len(field) = 9
    /\ \A i \in 1..4 : Ch(field, 2 * i) = " "
    /\ \A i \in 1..5 :
           /\ Ch(field, 2 * i - 1) \in {"0", "1"}
           /\ Ch(field, 2 * i - 1) = "1" <=> (i <= Len(answers) /\ answers[i].is_correct)

\* C20: export_to_anki_allinone returns the number of questions and writes
\* the four header lines and then one record per question, in list order.
\* The record of a question has 12 fields; fields 4 to 8 are the normalized
\* texts of its first five answers, in order, and "" where it has no such
\* answer; field 9 is the five bits of AnswersBits.
C20_AllInOneRowPerQuestion ==
    lastExport.exporter = "anki_allinone" =>
        /\ lastExport.returned = Len(questions)
        /\ AllInOneHeader = <<"#separator:Semicolon", "#html:false",
                              "#notetype:AllInOne (kprim, mc, sc)", "#tags:quiz generated">>
        /\ Len(AllInOneRecords) = Len(questions)
        /\ AllInOneBody = "" \/ SubSeq(AllInOneBody, Len(AllInOneBody) - 1, Len(AllInOneBody)) = "\r\n"
        /\ \A k \in 1..Len(questions) :
               LET row == CsvFields(AllInOneRecords[k])
                   answers == questions[k].answers
               IN  /\ Len(row) = 12
                   /\ row[1] = Normalized(questions[k].text)
                   /\ \A i \in 1..5 :
                          row[3 + i] = IF i <= Len(answers) THEN Normalized(answers[i].text)
                                       ELSE ""
                   /\ AnswersBits(row[9], answers)

\* C20 witness: an AllInOne export of two questions, one with four answers,
\* the other with five, whose texts hold line breaks, semicolons and quotes
C20_Witness ==
    /\ lastExport.exporter = "anki_allinone"
    /\ Len(questions) = 2
    /\ Len(questions[1].answers) = 4
    /\ Len(questions[2].answers) = 5
    /\ \E i \in 1..4 : questions[1].answers[i].text # Normalized(questions[1].answers[i].text)
    /\ \E i \in 1..4 : StrFind(questions[1].answers[i].text, ";") # 0

\* C20 witness of the cut after five: a question with six answers, the sixth
\* correct, has been exported
C20_WitnessSixAnswers ==
    /\ lastExport.exporter = "anki_allinone"
    /\ \E k \in 1..Len(questions) :
           Len(questions[k].answers) = 6 /\ questions[k].answers[6].is_correct

----------------------------------------------------------------------------
(* C21 *)

\* C21: the QType field (field 3) of the AllInOne record of a question is "2"
\* if the question's question_type is "single" or exactly one of its answers
\* is correct, and "1" otherwise.
C21_QTypeField ==
    lastExport.exporter = "anki_allinone" =>
        \A k \in 1..Len(questions) :
            LET qtype == CsvFields(AllInOneRecords[k])[3]
                single == \/ questions[k].question_type = "single"
                          \/ CorrectCount(questions[k]) = 1
            IN  /\ qtype \in {"1", "2"}
                /\ qtype = "2" <=> single

\* C21 witness: an AllInOne export of two "multiple" questions, one with
\* exactly one correct answer, the other with two or more
C21_Witness ==
    /\ lastExport.exporter = "anki_allinone"
    /\ Len(questions) = 2
    /\ \A k \in 1..2 : questions[k].question_type = "multiple"
    /\ \E k \in 1..2 : CorrectCount(questions[k]) = 1
    /\ \E k \in 1..2 : CorrectCount(questions[k]) >= 2

----------------------------------------------------------------------------
(* C22 *)

\* the lines of the Flashcard Hero file of the last export: the text is cut
\* at every "\n", and what follows the last one is no line when it is empty
FlashOutputLines ==
    LET parts == StrSplit(lastExport.output, "\n")
    IN  IF parts[Len(parts)] = "" THEN SubSeq(parts, 1, Len(parts) - 1) ELSE parts

\* a text holds a tab or a line break
HasTabOrBreak(t) == \E a \in 1..Len(t) : Ch(t, a) \in {"\t", "\n", "\r"}

\* C22: for a non-empty list, export_to_flashcard_hero returns the number of
\* questions and writes one line per question; every line holds exactly one
\* tab, and the k-th line starts with the text of the k-th question, without
\* its markdown and with its whitespace normalized, before that tab.
C22_FlashcardOneTabPerLine ==
    (lastExport.exporter = "flashcard_hero" /\ questions # <<>>) =>
        /\ lastExport.returned = Len(questions)
        /\ Len(FlashOutputLines) = Len(questions)
        /\ \A k \in 1..Len(questions) :
               LET line == FlashOutputLines[k]
                   cols == StrSplit(line, "\t")
               IN  /\ StrCount(line, "\t") = 1
                   /\ StrCount(line, "\r") = 0
                   /\ Len(cols) = 2
                   /\ cols[1] = Normalized(StripMarkdown(questions[k].text))

\* C22 witness: a Flashcard Hero export of two questions; the text of one and
\* a correct answer of one hold a tab and a line break
C22_Witness ==
    /\ lastExport.exporter = "flashcard_hero"
    /\ Len(questions) = 2
    /\ \E k \in 1..2 : HasTabOrBreak(questions[k].text)
    /\ \E k \in 1..2 : \E i \in 1..Len(questions[k].answers) :
           /\ questions[k].answers[i].is_correct
           /\ HasTabOrBreak(questions[k].answers[i].text)

----------------------------------------------------------------------------
(* C23 *)

\* line i of the block is whitespace-only and lies between two answer lines
\* of the answer section, or between its last answer line and the reason
\* marker
BlankBetween(L, i) ==
    /\ i \in SectionStart(L)..(SectionEnd(L) - 1)
    /\ BlankLine(L[i])
    /\ \E j \in SectionAnswers(L) : j < i
    /\ \/ \E k \in SectionAnswers(L) : k > i
       \/ SectionEnd(L) <= Len(L)

\* the text of the answer that starts on line j as it is when line i is left
\* out of the block
AnswerTextWithout(L, j, i) ==
    LET rest == {k \in (j + 1)..(AnswerEnd(L, j) - 1) : k # i}
    IN  StrStrip(StrJoin(<<Remainder(L[j])>> \o [n \in 1..Cardinality(rest) |-> L[Nth(rest, n)]],
                         "\n"))

\* line i is no part of the text of the n-th Answer: that text is what it
\* is without the line
NotPartOfAnswer(L, n, i) ==
    ParsedQuestion.answers[n].text = AnswerTextWithout(L, Nth(SectionAnswers(L), n), i)

\* the answer that starts on line j has a line with text before line i (or
\* text on its marker line) and a line with text after it
InsideAnswerBody(L, j, i) ==
    /\ j < i /\ i < AnswerEnd(L, j)
    /\ \/ ~BlankLine(Remainder(L[j]))
       \/ \E k \in (j + 1)..(i - 1) : ~BlankLine(L[k])
    /\ \E k \in (i + 1)..(AnswerEnd(L, j) - 1) : ~BlankLine(L[k])

\* C23 as stated: a whitespace-only line between two answer lines, or between
\* the last answer line and the reason marker, is part of no Answer's text.
C23_BlankLineInNoAnswerText ==
    JustParsed =>
        LET L == LinesOf(ParsedBlock)
        IN  \A i \in 1..Len(L) : BlankBetween(L, i) =>
                \A n \in 1..Len(ParsedQuestion.answers) : NotPartOfAnswer(L, n, i)

\* C23 amended: such a line is part of no Answer's text unless it stands
\* inside the body of a multi-line answer, with text of that answer before it
\* and after it; then it is kept in that answer's text, and in no other.
C23_BlankLineOnlyInsideAnswerBody ==
    JustParsed =>
        LET L == LinesOf(ParsedBlock)
            S == SectionAnswers(L)
        IN  \A i \in 1..Len(L) : BlankBetween(L, i) =>
                \A n \in 1..Len(ParsedQuestion.answers) :
                    NotPartOfAnswer(L, n, i) <=> ~InsideAnswerBody(L, Nth(S, n), i)

\* C23 witness: a parsed block with two answers and a whitespace-only line
\* between them that is inside the body of neither
C23_Witness ==
    /\ JustParsed
    /\ LET L == LinesOf(ParsedBlock)
       IN  /\ Len(ParsedQuestion.answers) >= 2
           /\ \E i \in 1..Len(L) :
                  /\ BlankBetween(L, i)
                  /\ \A j \in SectionAnswers(L) : ~InsideAnswerBody(L, j, i)

\* C23 witness of the kept line: a whitespace-only line inside the body of the
\* first of two answers
C23_WitnessInside ==
    /\ JustParsed
    /\ LET L == LinesOf(ParsedBlock)
       IN  \E i \in 1..Len(L) :
               /\ BlankBetween(L, i)
               /\ InsideAnswerBody(L, SectionStart(L), i)

----------------------------------------------------------------------------
(* C24 *)

\* the command has ended
CliEnded == cliPc \in {"done", "aborted", "usage_error"}
\* parse_quiz_file has been called
CliParsed == pc # "idle" \/ calls # <<>>

\* C24: an export command writes the output file only in a run whose parse
\* succeeded and in which the output file did not exist or --force was given:
\* then it ends with the export written at the output path.  In every other
\* run it aborts, and until a command writes, the output path is as it was
\* when the command was started.  A run that finds the output file existing
\* without --force never parses the input.
C24_WriteOnlyAfterParseAndCheck ==
    /\ cliPc = "done" =>
           /\ pc = "returned"
           /\ ~output_before.exists \/ args.force
           /\ output_file.exists
           /\ output_file.texts = CliOutput(calls[Len(calls)].result).texts
    /\ cliPc \notin {"none", "done"} => output_file = output_before
    /\ (CliEnded /\ output_before.exists /\ ~args.force /\ fileExists) =>
           cliPc = "aborted" /\ ~CliParsed
    /\ (CliEnded /\ ~fileExists) => cliPc = "usage_error" /\ ~CliParsed
    /\ (CliEnded /\ pc = "raised") => cliPc = "aborted"
    /\ (CliEnded /\ pc = "returned") => cliPc = "done"

\* C24 witness: a command given --force has replaced an existing output file
C24_Witness ==
    /\ cliPc = "done"
    /\ output_before.exists
    /\ args.force
    /\ output_file # output_before

\* C24 witness of the aborts: an existing output file without --force
C24_WitnessExists ==
    cliPc = "aborted" /\ output_before.exists /\ ~args.force /\ ~CliParsed

\* C24 witness of the aborts: a parse error, with --force on an existing file
C24_WitnessParseError ==
    cliPc = "aborted" /\ pc = "raised" /\ args.force /\ output_before.exists

----------------------------------------------------------------------------
(* C25 *)

\* C25: the AllInOne record of every question that has a correct answer
\* marks an option correct: its Answers field (field 9) holds a 1.
C25_AllInOneMarksACorrectOption ==
    lastExport.exporter = "anki_allinone" =>
        \A k \in 1..Len(questions) :
            CorrectCount(questions[k]) >= 1 =>
                StrCount(CsvFields(AllInOneRecords[k])[9], "1") >= 1

----------------------------------------------------------------------------
(* C26 *)

\* the defects of a block, in the order they are looked for: no question
\* text, answer lines of both shapes in the answer section, no answer line,
\* no flagged answer line
Defects(L) ==
    (IF ~HasQuestionText(L) THEN {1} ELSE {})
    \cup (IF SectionMixed(L) THEN {2} ELSE {})
    \cup (IF SectionAnswers(L) = {} THEN {3} ELSE {})
    \cup (IF Unflagged(L) THEN {4} ELSE {})

\* the error message of each defect
DefectMessage(d) ==
    IF d = 1 THEN MsgNoQuestionText
    ELSE IF d = 2 THEN MsgMixed
    ELSE IF d = 3 THEN MsgNoAnswers
    ELSE MsgNoCorrect

\* C26: a block with defects never yields a Question; its parse raises one
\* error, that of the first of its defects in the order: missing question
\* text, mixed marker shapes (raised at the first line whose shape differs),
\* no answers, no correct answer.  A block that mixes the shapes and flags
\* nothing reports the mixed-answer-types error.
C26_FirstDefectIsReported ==
    /\ JustParsed => Defects(LinesOf(ParsedBlock)) = {}
    /\ JustRaised =>
           LET L == LinesOf(RaisedBlock)
               first == SetMin(Defects(L))
           IN  /\ Defects(L) # {}
               /\ RaisedError.error_message = DefectMessage(first)
               /\ LastCall.message.text = DefectMessage(first)
               /\ first = 2 => MixedRaisedAt(L, FirstDiffering(L))

\* C26 witness: a block with question text that mixes the shapes and flags
\* nothing has failed with the mixed-answer-types error
C26_Witness ==
    /\ JustRaised
    /\ Defects(LinesOf(RaisedBlock)) = {2, 4}
    /\ RaisedError.error_message = MsgMixed

\* C26 witness of the first priority: a block without question text that
\* also mixes the shapes and flags nothing
C26_WitnessNoText ==
    /\ JustRaised
    /\ Defects(LinesOf(RaisedBlock)) = {1, 2, 4}
    /\ RaisedError.error_message = MsgNoQuestionText

----------------------------------------------------------------------------
(* C27: in every state of a quiz run of the page, a question marked checked *)
(* has a non-empty recorded selection, which is the selection it had when   *)
(* it was checked; selectAnswer on a checked question and checkAnswer on a  *)
(* question without a selection leave the state as it is.                   *)

\* the JavaScript indices of the questions and of the answers of question q
QuestionIndices == 0..(Len(state.questions) - 1)
AnswerIndices(q) == 0..(Len(state.questions[q + 1].answers) - 1)

C27_CheckedKeepsSelection ==
    /\ \A q \in DOMAIN state.checked :
        /\ q \in DOMAIN state.answers
        /\ Len(state.answers[q]) > 0
        /\ q \in DOMAIN checkedWith
        /\ state.answers[q] = checkedWith[q]
    /\ \A q \in QuestionIndices :
        /\ q \in DOMAIN state.checked =>
               \A a \in AnswerIndices(q), isMultiple \in BOOLEAN :
                   SelectAnswer(state, q, a, isMultiple) = state
        /\ Len(Selected(state, q)) = 0 => CheckAnswer(state, q) = state

\* the quiz is submitted with a checked question that has two answers selected
C27_Witness ==
    /\ state.currentPage = "statistics"
    /\ \E q \in DOMAIN state.checked : Len(state.answers[q]) = 2

\* a question whose selection was taken back is shown unchecked
C27_WitnessNoSelection ==
    /\ state.currentPage = "question"
    /\ state.currentQuestionIndex \in DOMAIN state.answers
    /\ Len(state.answers[state.currentQuestionIndex]) = 0
    /\ state.currentQuestionIndex \notin DOMAIN state.checked

----------------------------------------------------------------------------
(* C28: with auto-advance enabled at the start of the quiz, once the        *)
(* question shown is checked the page moves on by itself: a step that needs *)
(* no user event is due.                                                    *)

\* the steps the page takes without a user event: the callbacks it has set
AutomaticStep == Tick

\* auto-advance is on and the question shown has been checked
AutoAdvanceDue ==
    /\ state.currentPage = "question"
    /\ state.config.autoAdvance
    /\ state.currentQuestionIndex \in DOMAIN state.checked

C28_AutoAdvanceMovesOn == AutoAdvanceDue => ENABLED AutomaticStep

----------------------------------------------------------------------------
(* C29: whenever a question is shown, the timer is enabled and not paused   *)
(* and timerSeconds > 0, a tick interval of the page is active, after       *)
(* returning from the statistics page and after a reload too; timerSeconds  *)
(* never goes below 0.                                                      *)

\* the countdown of the question page is running down
CountingDown ==
    /\ state.currentPage = "question"
    /\ state.config.timerEnabled
    /\ ~state.timerPaused
    /\ state.timerSeconds > 0

C29_TickIntervalActive ==
    /\ CountingDown => \E t \in timers : t.callback = "tick"
    /\ state.config.timerEnabled => state.timerSeconds >= 0

\* the parts of it the page keeps: no negative count, no tick while paused
TimerSecondsNotNegative == state.config.timerEnabled => state.timerSeconds >= 0
NoDecreaseWhilePaused ==
    [][state.config.timerEnabled /\ state.timerPaused
           => state'.currentPage = "intro" \/ state'.timerSeconds >= state.timerSeconds]_vars

----------------------------------------------------------------------------
(* C30: on the statistics page the number of questions the overview shows   *)
(* as correct is the correct count of the score, and                        *)
(* correct <= answered <= total.                                            *)

C30_OverviewMatchesScore ==
    state.currentPage = "statistics" =>
        LET score == CalculateScore(state)
        IN  /\ Cardinality(OverviewCorrect(state)) = score.correct
            /\ score.correct <= score.answered
            /\ score.answered <= score.total

\* the part of it the page keeps: the order of the three counts
ScoreCountsOrdered ==
    state.currentPage = "statistics" =>
        LET score == CalculateScore(state)
        IN  score.correct <= score.answered /\ score.answered <= score.total

====
